---- MODULE Spec2Model ----
(***************************************************************************)
(* Model of the public-health-data-dashboard pipeline core:                *)
(*   - the CRUD layer over a SQLite table          (src/src/crud.py)       *)
(*   - the DataAnalyzer wrapper and its filters    (src/src/analysis.py)   *)
(*   - the DataCleaner wrapper and its functions   (src/src/cleaning.py)   *)
(*   - the loader of API responses                 (src/src/main.py)       *)
(*   - the activity log                    (src/src/activity_logger.py)    *)
(*                                                                         *)
(* A cell of a table or DataFrame is <<>> (NULL / NaN / None / NaT) or     *)
(* <<v>> for a value v.  A row is a function from column names to cells.   *)
(* A DataFrame is [cols, dtype, iname, index, rows]: the ordered column    *)
(* names, each column's dtype, the index name and labels, and the rows,    *)
(* index[i] labelling rows[i].  The cells of a numeric column are exact    *)
(* rationals [num, den] in lowest terms, those of a datetime column day    *)
(* numbers, those of an object column strings; a column of dtype "text"    *)
(* is an object column whose strings are written as sequences of           *)
(* characters, for the functions that work on the characters.              *)
(***************************************************************************)
EXTENDS Integers, Sequences, FiniteSets, TLC

VARIABLES
    db,        \* CRUD: the store, table name -> <<>> (absent) or <<table>>
    call,      \* CRUD: the last call, its arguments, its outcome and the store before it
    analyzer,  \* DataAnalyzer instance: original_df, df, operations, _group_by
    acall,     \* DataAnalyzer: the last call and its outcome
    cleaner,   \* DataCleaner instance: original_df, df, operations (a list reference), original_shape
    heap,      \* DataCleaner: the list objects, reference -> sequence of descriptions
    reports,   \* DataCleaner: the cleaning reports the caller still holds
    ccall,     \* DataCleaner: the last call and its outcome
    fin,       \* pure functions: the input DataFrame
    fcall,     \* pure functions: the last application, its arguments and its result
    log_file,  \* activity log: the file, <<>> (absent) or <<lines>>
    loggers,   \* activity log: the ActivityLogger instances and where each is in its with-block
    calls,     \* activity log: the calls made on the log file, in order
    lcall      \* activity log: the last call and its outcome

vars == <<db, call, analyzer, acall, cleaner, heap, reports, ccall, fin, fcall,
          log_file, loggers, calls, lcall>>

crudVars     == <<db, call>>
analyzerVars == <<analyzer, acall>>
cleanerVars  == <<cleaner, heap, reports, ccall>>
pureVars     == <<fin, fcall>>
loggerVars   == <<log_file, loggers, calls, lcall>>

(***************************************************************************)
(* Generic helpers                                                         *)
(***************************************************************************)
NULL == <<>>
IsNull(c) == c = <<>>
Val(c) == c[1]

Range(s) == {s[i] : i \in 1..Len(s)}

RECURSIVE SeqsUpTo(_, _)
SeqsUpTo(S, n) ==
    IF n = 0 THEN {<<>>}
    ELSE LET shorter == SeqsUpTo(S, n - 1)
         IN  shorter \cup {Append(s, x) : s \in {t \in shorter : Len(t) = n - 1}, x \in S}

\* The positions i >= from at which the boolean sequence mask is TRUE, in
\* increasing order.
RECURSIVE TruePositions(_, _)
TruePositions(mask, from) ==
    IF from > Len(mask) THEN <<>>
    ELSE IF mask[from] THEN <<from>> \o TruePositions(mask, from + 1)
    ELSE TruePositions(mask, from + 1)

\* The elements of s at the positions where mask is TRUE, in order.
SelectByMask(s, mask) ==
    LET keep == TruePositions(mask, 1)
    IN  [k \in 1..Len(keep) |-> s[keep[k]]]

(***************************************************************************)
(* CRUD layer (src/src/crud.py)                                            *)
(***************************************************************************)
MaxTableRows == 2      \* rows a table may hold in the model
MaxBatch     == 2      \* records of one create_records call

TableCols == <<"id", "cases">>
ExtraCol  == "note"                 \* a key that is not a column of the table
Ids       == {1, 2}
Cases     == {100, 200}
CrudKeys  == Range(TableCols) \cup {ExtraCol}

\* CRUD records (dicts): mappings from some of the keys to values.
CrudRecords ==
    UNION {{r \in [D -> Ids \cup {100, 7}] :
               \A k \in D : r[k] \in (IF k = "id" THEN Ids ELSE IF k = "cases" THEN {100} ELSE {7})}
           : D \in SUBSET CrudKeys}
\* The records of a batch: with the table's columns, without "cases", and
\* with a key the table lacks.
BatchRecords ==
    {r \in CrudRecords : /\ "id" \in DOMAIN r
                         /\ r["id"] = 1
                         /\ ExtraCol \in DOMAIN r => "cases" \in DOMAIN r}
\* The updates mapping of an update_record call.
Updates ==
    UNION {{r \in [D -> Cases \cup {7}] :
               \A k \in D : r[k] \in (IF k = "cases" THEN Cases ELSE {7})}
           : D \in {{}, {"cases"}, {ExtraCol}}}

\* WHERE clauses: None, the empty string, or a predicate "col op val".
WhereNone  == [kind |-> "none"]
WhereEmpty == [kind |-> "empty"]
WherePreds == {[kind |-> "pred", col |-> "id", op |-> "=", val |-> i] : i \in Ids}
              \cup {[kind |-> "pred", col |-> "cases", op |-> ">", val |-> 100]}
Wheres == {WhereNone, WhereEmpty} \cup WherePreds

\* SQL's three-valued comparison: a NULL cell satisfies no predicate.
SqlMatches(row, w) ==
    /\ ~IsNull(row[w.col])
    /\ IF w.op = "=" THEN Val(row[w.col]) = w.val ELSE Val(row[w.col]) > w.val

Table(rows) == [cols |-> TableCols, rows |-> rows]
TableRows == {[id |-> <<i>>, cases |-> c] : i \in Ids, c \in {<<x>> : x \in Cases} \cup {NULL}}

ErrOk          == "ok"
ErrWhere       == "ValueError: WHERE clause is required"
ErrNoTable     == "ValueError: Table does not exist"
ErrMissingCols == "ValueError: Missing required columns"
ErrSql         == "OperationalError"

\* The last call that was not a read, as a read's record keeps it.
NoPrev == [op |-> "none", err |-> ErrOk, ret |-> 0, before |-> <<>>, where |-> WhereNone,
           records |-> <<>>]

NoCall == [op |-> "none", err |-> ErrOk, missing |-> {}, ret |-> 0, before |-> <<>>,
           where |-> WhereNone, records |-> <<>>, out |-> NULL, via |-> "function",
           prev |-> NoPrev]

\* What a call leaves for the caller: the exception raised (or "ok"), the
\* column names its message lists, the value returned; with the arguments
\* and the store as it was when the call was made.
Outcome(op, err, missing, ret, w, recs) ==
    [op |-> op, err |-> err, missing |-> missing, ret |-> ret, before |-> db,
     where |-> w, records |-> recs, out |-> NULL, via |-> "function", prev |-> NoPrev]

ReadOps == {"read_records", "read_record_by_id", "get_table_info", "table_exists"}

\* The record of the last call that was not a read.
LastWrite ==
    IF call.op \in ReadOps THEN call.prev
    ELSE [op |-> call.op, err |-> call.err, ret |-> call.ret, before |-> call.before,
          where |-> call.where, records |-> call.records]

\* The outcome of a read: what it raised or returned (out), through the
\* module function or a CRUDManager method (via).
ReadOutcome(op, via, err, w, recs, out) ==
    [Outcome(op, err, {}, 0, w, recs) EXCEPT !.out = out, !.via = via, !.prev = LastWrite]

\* _validate_table_exists: the table name is among the store's tables.
TablePresent == db # <<>>

\* existing_columns = [col['name'] for col in inspector.get_columns(table_name)]
ExistingColumns == Range(db[1].cols)

\* DataFrame.to_sql(if_exists='append') of a frame with the given columns:
\* an INSERT naming the frame's columns; a column the table lacks makes the
\* statement fail and nothing is inserted, a table column the frame lacks is
\* stored as NULL.
ToSqlFails(keys) == ~(keys \subseteq ExistingColumns)
ToSqlRow(rec) ==
    [c \in ExistingColumns |-> IF c \in DOMAIN rec THEN <<rec[c]>> ELSE NULL]

RECURSIVE ToSqlRows(_)
ToSqlRows(recs) ==
    IF recs = <<>> THEN <<>> ELSE <<ToSqlRow(Head(recs))>> \o ToSqlRows(Tail(recs))

AppendRows(recs) == <<Table(db[1].rows \o ToSqlRows(recs))>>

\* Mutant: the set difference is taken the wrong way round.
MissingColsSwapped(record) == DOMAIN record \ ExistingColumns

\* missing_cols = set(existing_columns) - set(record.keys())
MissingCols(record) == ExistingColumns \ DOMAIN record

create_record(record) ==
    /\ IF ~TablePresent
       THEN /\ call' = Outcome("create_record", ErrNoTable, {}, 0, WhereNone, <<record>>)
            /\ db' = db
       ELSE IF MissingCols(record) # {}
       THEN /\ call' = Outcome("create_record", ErrMissingCols, MissingCols(record), 0,
                               WhereNone, <<record>>)
            /\ db' = db
       ELSE IF ToSqlFails(DOMAIN record)
       THEN /\ call' = Outcome("create_record", ErrSql, {}, 0, WhereNone, <<record>>)
            /\ db' = db
       ELSE /\ Len(db[1].rows) < MaxTableRows
            /\ call' = Outcome("create_record", ErrOk, {}, 1, WhereNone, <<record>>)
            /\ db' = AppendRows(<<record>>)
    /\ UNCHANGED <<analyzerVars, cleanerVars, pureVars, loggerVars>>

\* pd.DataFrame(records): the columns are the union of the records' keys.
BatchKeys(records) == UNION {DOMAIN records[i] : i \in 1..Len(records)}

create_records(records) ==
    /\ IF ~TablePresent
       THEN /\ call' = Outcome("create_records", ErrNoTable, {}, 0, WhereNone, records)
            /\ db' = db
       ELSE IF ToSqlFails(BatchKeys(records))
       THEN /\ call' = Outcome("create_records", ErrSql, {}, 0, WhereNone, records)
            /\ db' = db
       ELSE /\ Len(db[1].rows) + Len(records) <= MaxTableRows
            /\ call' = Outcome("create_records", ErrOk, {}, 1, WhereNone, records)
            /\ db' = AppendRows(records)
    /\ UNCHANGED <<analyzerVars, cleanerVars, pureVars, loggerVars>>

\* Mutant: the safety check is dropped.
WhereNeverMissing(w) == FALSE

\* if where is None: raise ValueError("WHERE clause is required ...")
WhereMissing(w) == w.kind = "none"

\* The statement "UPDATE t SET k=:k, ... WHERE {where}" is rejected by the
\* store when where is not an expression over the table's columns ("" leaves
\* "WHERE " and None would leave "WHERE None"), when updates is empty or names
\* no column of the table.
UpdateSqlFails(updates, w) ==
    \/ w.kind # "pred"
    \/ DOMAIN updates = {}
    \/ ~(DOMAIN updates \subseteq ExistingColumns)

\* Mutant: every row is updated, whatever the where clause.
UpdatedRowAnyRow(row, updates, w) ==
    [c \in DOMAIN row |-> IF c \in DOMAIN updates THEN <<updates[c]>> ELSE row[c]]

UpdatedRow(row, updates, w) ==
    IF SqlMatches(row, w)
    THEN [c \in DOMAIN row |-> IF c \in DOMAIN updates THEN <<updates[c]>> ELSE row[c]]
    ELSE row

\* result.rowcount
MatchCount(rows, w) == Cardinality({i \in 1..Len(rows) : SqlMatches(rows[i], w)})

update_record(updates, w) ==
    /\ IF WhereMissing(w)
       THEN /\ call' = Outcome("update_record", ErrWhere, {}, 0, w, <<updates>>)
            /\ db' = db
       ELSE IF ~TablePresent
       THEN /\ call' = Outcome("update_record", ErrNoTable, {}, 0, w, <<updates>>)
            /\ db' = db
       ELSE IF UpdateSqlFails(updates, w)
       THEN /\ call' = Outcome("update_record", ErrSql, {}, 0, w, <<updates>>)
            /\ db' = db
       ELSE /\ call' = Outcome("update_record", ErrOk, {}, MatchCount(db[1].rows, w), w,
                               <<updates>>)
            /\ db' = <<Table([i \in 1..Len(db[1].rows) |->
                                 UpdatedRow(db[1].rows[i], updates, w)])>>
    /\ UNCHANGED <<analyzerVars, cleanerVars, pureVars, loggerVars>>

\* "DELETE FROM t WHERE {where}" is rejected by the store when where is not an
\* expression over the table's columns.
DeleteSqlFails(w) == w.kind # "pred"

RowsNotMatching(rows, w) ==
    SelectByMask(rows, [i \in 1..Len(rows) |-> ~SqlMatches(rows[i], w)])

delete_record(w) ==
    /\ IF WhereMissing(w)
       THEN /\ call' = Outcome("delete_record", ErrWhere, {}, 0, w, <<>>)
            /\ db' = db
       ELSE IF ~TablePresent
       THEN /\ call' = Outcome("delete_record", ErrNoTable, {}, 0, w, <<>>)
            /\ db' = db
       ELSE IF DeleteSqlFails(w)
       THEN /\ call' = Outcome("delete_record", ErrSql, {}, 0, w, <<>>)
            /\ db' = db
       ELSE /\ call' = Outcome("delete_record", ErrOk, {}, MatchCount(db[1].rows, w), w, <<>>)
            /\ db' = <<Table(RowsNotMatching(db[1].rows, w))>>
    /\ UNCHANGED <<analyzerVars, cleanerVars, pureVars, loggerVars>>

\* Mutant: the query is answered from the store as it was before the last
\* write.
StoredRowsStale == IF LastWrite.before = <<>> THEN <<>> ELSE LastWrite.before[1].rows

\* What a new connection to the store finds in the table: the rows of the
\* committed transactions.
StoredRows == db[1].rows

\* "SELECT * FROM t [WHERE {where}] [LIMIT {limit}]": `if where:` and
\* `if limit:` leave the clause out for None, "" and 0.  limit is None
\* (<<>>) or <<n>>.
SelectRows(w, limit) ==
    LET found == IF w.kind = "pred"
                 THEN SelectByMask(StoredRows,
                                   [i \in 1..Len(StoredRows) |-> SqlMatches(StoredRows[i], w)])
                 ELSE StoredRows
    IN  IF limit = NULL \/ Val(limit) = 0 \/ Len(found) <= Val(limit) THEN found
        ELSE SubSeq(found, 1, Val(limit))

ReadRecords(via, w, limit) ==
    IF ~TablePresent
    THEN ReadOutcome("read_records", via, ErrNoTable, w, <<[limit |-> limit]>>, NULL)
    ELSE ReadOutcome("read_records", via, ErrOk, w, <<[limit |-> limit]>>, SelectRows(w, limit))

read_records(w, limit) ==
    /\ call' = ReadRecords("function", w, limit)
    /\ UNCHANGED <<db, analyzerVars, cleanerVars, pureVars, loggerVars>>

\* CRUDManager.read: read_records(self.db_path, table_name, **kwargs)
CRUDManager_read(w, limit) ==
    /\ call' = ReadRecords("CRUDManager", w, limit)
    /\ UNCHANGED <<db, analyzerVars, cleanerVars, pureVars, loggerVars>>

\* where=f"{id_column}={id_value}", limit=1; None when the frame is empty,
\* else df.iloc[0].to_dict().
IdWhere(id_value) == [kind |-> "pred", col |-> "id", op |-> "=", val |-> id_value]

ReadRecordById(via, id_value) ==
    IF ~TablePresent
    THEN ReadOutcome("read_record_by_id", via, ErrNoTable, IdWhere(id_value), <<>>,
                     NULL)
    ELSE LET df == SelectRows(IdWhere(id_value), <<1>>)
         IN  ReadOutcome("read_record_by_id", via, ErrOk, IdWhere(id_value), <<>>,
                         IF df = <<>> THEN NULL ELSE <<df[1]>>)

read_record_by_id(id_value) ==
    /\ call' = ReadRecordById("function", id_value)
    /\ UNCHANGED <<db, analyzerVars, cleanerVars, pureVars, loggerVars>>

CRUDManager_read_by_id(id_value) ==
    /\ call' = ReadRecordById("CRUDManager", id_value)
    /\ UNCHANGED <<db, analyzerVars, cleanerVars, pureVars, loggerVars>>

\* Mutant: the table is listed whether or not the store holds it.
list_tables_always == {"t"}

\* inspector.get_table_names()
list_tables == IF TablePresent THEN {"t"} ELSE {}

\* table_name in list_tables(db_path)
table_exists ==
    /\ call' = ReadOutcome("table_exists", "function", ErrOk, WhereNone, <<>>,
                          "t" \in list_tables)
    /\ UNCHANGED <<db, analyzerVars, cleanerVars, pureVars, loggerVars>>

\* {'columns': [...], 'row_count': SELECT COUNT(*) FROM t}
get_table_info ==
    /\ call' = IF ~TablePresent
               THEN ReadOutcome("get_table_info", "function", ErrNoTable, WhereNone, <<>>, NULL)
               ELSE ReadOutcome("get_table_info", "function", ErrOk, WhereNone, <<>>,
                                [columns |-> db[1].cols, row_count |-> Len(StoredRows)])
    /\ UNCHANGED <<db, analyzerVars, cleanerVars, pureVars, loggerVars>>

CrudIdle ==
    /\ db = <<>>
    /\ call = NoCall

\* The store before the first CRUD call: no table, or the table with at most
\* one row.
CrudInit ==
    /\ db \in {<<>>} \cup {<<Table(rows)>> : rows \in SeqsUpTo(TableRows, 1)}
    /\ call = NoCall

NextCrud ==
    \/ \E record \in CrudRecords : create_record(record)
    \/ \E records \in SeqsUpTo(BatchRecords, MaxBatch) \ {<<>>} : create_records(records)
    \/ \E updates \in Updates, w \in Wheres : update_record(updates, w)
    \/ \E w \in Wheres : delete_record(w)
    \/ \E w \in {WhereNone, IdWhere(1)}, limit \in {NULL, <<0>>, <<1>>} :
          read_records(w, limit)
    \/ \E w \in {WhereNone, IdWhere(1)} : CRUDManager_read(w, NULL)
    \/ \E id_value \in Ids : read_record_by_id(id_value)
    \/ CRUDManager_read_by_id(1)
    \/ table_exists
    \/ get_table_info

(***************************************************************************)
(* DataFrames                                                              *)
(***************************************************************************)
\* The default index of a new frame: the labels 0 .. n-1.
RangeIndex(n) == [i \in 1..n |-> [pos |-> i - 1]]

Frame(cols, dtype, rows) ==
    [cols |-> cols, dtype |-> dtype, iname |-> "", index |-> RangeIndex(Len(rows)),
     rows |-> rows]

HasCol(df, c) == c \in Range(df.cols)
NRows(df) == Len(df.rows)
ColCells(df, c) == [i \in 1..NRows(df) |-> df.rows[i][c]]

\* df[mask]: the rows where mask is TRUE, with their index labels.
BoolIndex(df, mask) ==
    [df EXCEPT !.index = SelectByMask(df.index, mask), !.rows = SelectByMask(df.rows, mask)]

\* Exact arithmetic on the values of numeric columns.
RECURSIVE Gcd(_, _)
Gcd(a, b) == IF b = 0 THEN a ELSE Gcd(b, a % b)
Abs(n) == IF n < 0 THEN 0 - n ELSE n

\* n / d (d > 0) in lowest terms.
Rat(n, d) == [num |-> n \div Gcd(Abs(n), d), den |-> d \div Gcd(Abs(n), d)]
Num(n) == [num |-> n, den |-> 1]
RatAdd(a, b) == Rat(a.num * b.den + b.num * a.den, a.den * b.den)
RatSub(a, b) == Rat(a.num * b.den - b.num * a.den, a.den * b.den)
RatMul(a, b) == Rat(a.num * b.num, a.den * b.den)
RatDivInt(a, n) == Rat(a.num, a.den * n)
RatLeq(a, b) == a.num * b.den <= b.num * a.den
RatLt(a, b)  == a.num * b.den < b.num * a.den

\* A DataFrame is an object, and a name that holds one holds its address.
\* The dataset the caller passes to a constructor lives at InputAt.
InputAt   == "df@0"
Addresses == <<"df@1", "df@2", "df@3", "df@4">>

\* The address of a new object: the first that no name in use holds.
FreshAt(used) ==
    Addresses[CHOOSE k \in 1..Len(Addresses) :
                 /\ Addresses[k] \notin used
                 /\ \A j \in 1..(k - 1) : Addresses[j] \in used]

\* Mutant: copy() hands back the object it was called on.
DfCopyShared(at, used) == at

\* df.copy(), for the object at address at: a new object with its contents.
DfCopy(at, used) == FreshAt(used)

\* What a caller does to a dataset it holds, in place: df['flag'] = 1.
FlagCol == "flag"
Flagged(df) ==
    [df EXCEPT
        !.cols  = IF HasCol(df, FlagCol) THEN @ ELSE Append(@, FlagCol),
        !.dtype = [c \in DOMAIN @ \cup {FlagCol} |-> IF c = FlagCol THEN "numeric" ELSE @[c]],
        !.rows  = [i \in 1..NRows(df) |->
                      [c \in DOMAIN df.rows[i] \cup {FlagCol} |->
                          IF c = FlagCol THEN <<Num(1)>> ELSE df.rows[i][c]]]]

\* The contents seen through a name that holds address at, once the object
\* at address target has been modified in place.
AfterEdit(at, target, df) == IF at = target THEN Flagged(df) ELSE df

\* The order of the values of a column: numbers by value, strings
\* alphabetically.
StrOrder == <<"2020-01-01", "2020-01-02", "2020-01-03", "France", "UK", "USA", "bad">>
StrRank(v) == CHOOSE k \in 1..Len(StrOrder) : StrOrder[k] = v
Before(u, v, dtype) ==
    IF dtype = "object" THEN StrRank(u) <= StrRank(v)
    ELSE IF dtype = "numeric" THEN RatLeq(u, v)
    ELSE u <= v

(***************************************************************************)
(* Filters (src/src/analysis.py)                                           *)
(***************************************************************************)
\* A filter value: a scalar, [kind |-> "scalar", v |-> cell], or a list,
\* [kind |-> "list", v |-> sequence of cells].
Scalar(c) == [kind |-> "scalar", v |-> c]
List(cs)  == [kind |-> "list", v |-> cs]

IsInFirst(cell, values) == values # <<>> /\ values[1] = cell

\* Series.isin(values): a missing cell is a member when the list holds a
\* missing value.
IsIn(cell, values) == \E j \in 1..Len(values) : values[j] = cell

\* Series == value, elementwise: a missing cell equals nothing and a missing
\* value equals no cell.
EqScalar(cell, v) == ~IsNull(cell) /\ ~IsNull(v) /\ cell = v

ValueMask(df, column, value) ==
    [i \in 1..NRows(df) |->
        IF value.kind = "list" THEN IsIn(df.rows[i][column], value.v)
        ELSE EqScalar(df.rows[i][column], value.v)]

\* df[column] raises KeyError when the frame has no such column.
filter_by_column_raises(df, column, value) == ~HasCol(df, column)

filter_by_column(df, column, value) == BoolIndex(df, ValueMask(df, column, value))

\* pd.to_datetime on strings: the dates it parses, as day numbers.
DateStrings == <<"2020-01-01", "2020-01-02", "2020-01-03">>
Parseable(s) == s \in Range(DateStrings)
ParseDate(s) == CHOOSE k \in 1..Len(DateStrings) : DateStrings[k] = s

ToDatetimeCell(cell) == IF IsNull(cell) THEN NULL ELSE <<ParseDate(Val(cell))>>

\* pd.to_datetime(df[column]) with errors='raise'.
ToDatetimeRaises(df, column) ==
    \E i \in 1..NRows(df) : ~IsNull(df.rows[i][column]) /\ ~Parseable(Val(df.rows[i][column]))

ToDatetime(df, column) ==
    [df EXCEPT !.dtype[column] = "datetime",
               !.rows = [i \in 1..NRows(df) |->
                            [df.rows[i] EXCEPT ![column] = ToDatetimeCell(@)]]]

\* mask &= (col >= start); mask &= (col <= end): a comparison with NaT is False.
InDateRange(cell, start_date, end_date) ==
    /\ IsNull(start_date) \/ (~IsNull(cell) /\ Val(cell) >= Val(start_date))
    /\ IsNull(end_date) \/ (~IsNull(cell) /\ Val(cell) <= Val(end_date))

filter_by_date_range_raises(df, date_column, start_date, end_date) ==
    \/ ~HasCol(df, date_column)
    \/ df.dtype[date_column] # "datetime" /\ ToDatetimeRaises(df, date_column)

filter_by_date_range(df, date_column, start_date, end_date) ==
    LET df_copy == IF df.dtype[date_column] = "datetime" THEN df
                   ELSE ToDatetime(df, date_column)
        mask == [i \in 1..NRows(df_copy) |->
                    InDateRange(df_copy.rows[i][date_column], start_date, end_date)]
    IN  BoolIndex(df_copy, mask)

filter_by_first_condition(df, conditions) ==
    IF conditions = <<>> THEN df
    ELSE BoolIndex(df, ValueMask(df, Head(conditions).col, Head(conditions).value))

\* conditions: the dict as the sequence of its items, [col, value].
filter_by_multiple_conditions_raises(df, conditions) ==
    \E k \in 1..Len(conditions) : ~HasCol(df, conditions[k].col)

RECURSIVE filter_by_multiple_conditions(_, _)
filter_by_multiple_conditions(df, conditions) ==
    IF conditions = <<>> THEN df
    ELSE filter_by_multiple_conditions(
             BoolIndex(df, ValueMask(df, Head(conditions).col, Head(conditions).value)),
             Tail(conditions))

(***************************************************************************)
(* Aggregation and moving average (src/src/analysis.py)                    *)
(***************************************************************************)
\* group_by: a column name, [kind |-> "str", cols |-> <<c>>], or a list of
\* column names, [kind |-> "list", cols |-> cs].
GroupStr(c)   == [kind |-> "str", cols |-> <<c>>]
GroupList(cs) == [kind |-> "list", cols |-> cs]

AggFuncs == {"sum", "count"}

\* df.groupby(key): key names a column, or the index when the index has
\* that name.
KeyIsIndex(df, key) == ~HasCol(df, key) /\ df.iname = key
KeyCells(df, key) ==
    IF HasCol(df, key) THEN ColCells(df, key)
    ELSE [i \in 1..NRows(df) |-> <<df.index[i].key>>]
KeyDtype(df, key) == IF HasCol(df, key) THEN df.dtype[key] ELSE "object"

\* The distinct values of S in ascending order.
RECURSIVE SortedValues(_, _)
SortedValues(S, dtype) ==
    IF S = {} THEN <<>>
    ELSE LET least == CHOOSE v \in S : \A u \in S : Before(v, u, dtype)
         IN  <<least>> \o SortedValues(S \ {least}, dtype)

\* The key of row i: its cells in the group-by columns.
RowKey(df, cols, i) == [k \in 1..Len(cols) |-> KeyCells(df, cols[k])[i]]
HasKey(df, cols, i) == \A k \in 1..Len(cols) : ~IsNull(RowKey(df, cols, i)[k])

\* Keys compare column by column, the first column first.
RECURSIVE KeyBefore(_, _, _)
KeyBefore(u, v, dtypes) ==
    IF u = <<>> THEN TRUE
    ELSE IF Head(u) = Head(v) THEN KeyBefore(Tail(u), Tail(v), Tail(dtypes))
    ELSE Before(Val(Head(u)), Val(Head(v)), Head(dtypes))

RECURSIVE SortedKeys(_, _)
SortedKeys(S, dtypes) ==
    IF S = {} THEN <<>>
    ELSE LET least == CHOOSE v \in S : \A u \in S : KeyBefore(v, u, dtypes)
         IN  <<least>> \o SortedKeys(S \ {least}, dtypes)

\* groupby sorts the keys and drops the rows with a missing key cell.
GroupKeys(df, cols) ==
    SortedKeys({RowKey(df, cols, i) : i \in {j \in 1..NRows(df) : HasKey(df, cols, j)}},
               [k \in 1..Len(cols) |-> KeyDtype(df, cols[k])])

\* The sum of the non-missing cells (0 when there is none).
RECURSIVE SumCells(_)
SumCells(cells) ==
    IF cells = <<>> THEN Num(0)
    ELSE RatAdd(IF IsNull(Head(cells)) THEN Num(0) ELSE Val(Head(cells)),
                SumCells(Tail(cells)))

CountCells(cells) == Cardinality({i \in 1..Len(cells) : ~IsNull(cells[i])})

GroupCellsAnyKey(df, cols, agg_column, key) ==
    SelectByMask(ColCells(df, agg_column), [i \in 1..NRows(df) |-> HasKey(df, cols, i)])

\* The agg_column cells of the rows whose key is key, in row order.
GroupCells(df, cols, agg_column, key) ==
    SelectByMask(ColCells(df, agg_column),
                 [i \in 1..NRows(df) |-> RowKey(df, cols, i) = key])

Aggregate(cells, agg_func) ==
    IF agg_func = "sum" THEN SumCells(cells) ELSE Num(CountCells(cells))

\* KeyError for an unknown group or aggregation column, AttributeError for
\* an unknown function name, ValueError when reset_index would insert a
\* column that exists.
group_and_aggregate_raises(df, group_by, agg_column, agg_func) ==
    \/ \E k \in 1..Len(group_by.cols) :
          ~HasCol(df, group_by.cols[k]) /\ ~KeyIsIndex(df, group_by.cols[k])
    \/ ~HasCol(df, agg_column)
    \/ agg_func \notin AggFuncs
    \/ agg_column \in Range(group_by.cols)

ColumnPosition(cols, c) == CHOOSE k \in 1..Len(cols) : cols[k] = c

group_and_aggregate(df, group_by, agg_column, agg_func) ==
    LET cols == group_by.cols
        keys == GroupKeys(df, cols)
        agg(k) == <<Aggregate(GroupCells(df, cols, agg_column, keys[k]), agg_func)>>
    IN  IF group_by.kind = "str"
        THEN [cols  |-> <<agg_column>>,
              dtype |-> [c \in {agg_column} |-> "numeric"],
              iname |-> cols[1],
              index |-> [k \in 1..Len(keys) |-> [key |-> Val(keys[k][1])]],
              rows  |-> [k \in 1..Len(keys) |-> [c \in {agg_column} |-> agg(k)]]]
        ELSE [cols  |-> cols \o <<agg_column>>,
              dtype |-> [c \in Range(cols) \cup {agg_column} |->
                            IF c = agg_column THEN "numeric" ELSE KeyDtype(df, c)],
              iname |-> "",
              index |-> RangeIndex(Len(keys)),
              rows  |-> [k \in 1..Len(keys) |->
                            [c \in Range(cols) \cup {agg_column} |->
                                IF c = agg_column THEN agg(k)
                                ELSE keys[k][ColumnPosition(cols, c)]]]]

\* output_column = f'{column}_ma'
MaColumn(column) ==
    IF column = "cases" THEN "cases_ma"
    ELSE IF column = "country" THEN "country_ma"
    ELSE IF column = "date" THEN "date_ma"
    ELSE "nocol_ma"

\* The mean of the rows seen so far while the window is not yet full.
RollingMeanPartial(cells, window, i) ==
    LET lo == IF i < window THEN 1 ELSE i - window + 1
    IN  IF \E j \in lo..i : IsNull(cells[j]) THEN NULL
        ELSE <<RatDivInt(SumCells(SubSeq(cells, lo, i)), i - lo + 1)>>

\* Series.rolling(window).mean() at row i: missing until the window is full
\* and when the window holds a missing cell, else the mean of the window.
RollingMean(cells, window, i) ==
    IF i < window \/ \E j \in (i - window + 1)..i : IsNull(cells[j]) THEN NULL
    ELSE <<RatDivInt(SumCells(SubSeq(cells, i - window + 1, i)), window)>>

\* df[column] raises KeyError; rolling().mean() raises on a column that is
\* not numeric.
calculate_moving_average_raises(df, column, window) ==
    \/ ~HasCol(df, column)
    \/ df.dtype[column] # "numeric"

calculate_moving_average(df, column, window) ==
    LET output_column == MaColumn(column)
        cells == ColCells(df, column)
    IN  [df EXCEPT
            !.cols  = IF HasCol(df, output_column) THEN @ ELSE Append(@, output_column),
            !.dtype = [c \in DOMAIN @ \cup {output_column} |->
                          IF c = output_column THEN "numeric" ELSE @[c]],
            !.rows  = [i \in 1..NRows(df) |->
                          [c \in DOMAIN df.rows[i] \cup {output_column} |->
                              IF c = output_column THEN RollingMean(cells, window, i)
                              ELSE df.rows[i][c]]]]

(***************************************************************************)
(* DataAnalyzer (src/src/analysis.py)                                      *)
(***************************************************************************)
MaxAnalyzerRows == 2     \* rows of the frame a DataAnalyzer is built on
MaxOps          == 2     \* length the operations log may reach in the model
MaxWindow       == 2     \* largest moving-average window

NoCol == "nocol"         \* a column name no frame has

AnalyzerCols  == <<"country", "cases", "date">>
AnalyzerDtype == [c \in Range(AnalyzerCols) |-> IF c = "cases" THEN "numeric" ELSE "object"]
AnalyzerRows ==
    {[country |-> <<"UK">>,  cases |-> <<Num(100)>>, date |-> <<"2020-01-01">>],
     [country |-> <<"USA">>, cases |-> <<Num(100)>>, date |-> <<"2020-01-02">>],
     [country |-> <<"UK">>,  cases |-> NULL,         date |-> <<"2020-01-03">>]}
AnalyzerFrames ==
    {Frame(AnalyzerCols, AnalyzerDtype, rows) : rows \in SeqsUpTo(AnalyzerRows, MaxAnalyzerRows)}

\* __init__: original_df = df.copy(); df = df.copy(); operations = [];
\* the instance has no _group_by attribute (<<>>) until group_by() sets it.
\* at holds the addresses of the two copies.
DataAnalyzer(df) ==
    [original_df |-> df, df |-> df, operations |-> <<>>, group_by |-> <<>>,
     at |-> [original_df |-> DfCopy(InputAt, {InputAt}),
             df          |-> DfCopy(InputAt, {InputAt, DfCopy(InputAt, {InputAt})})]]

\* What a call leaves for the caller: the exception raised (or "ok"); with
\* what the instance was when the call was made: whether it had a _group_by
\* attribute, the length of its log and the rows of its current frame.
ACall(op, err) ==
    [op |-> op, err |-> err, grouped |-> analyzer.group_by # <<>>,
     nops |-> Len(analyzer.operations), nrows |-> NRows(analyzer.df), ret |-> NULL]

ARaise(op, err) ==
    /\ acall' = ACall(op, err)
    /\ analyzer' = analyzer

AReturn(op, df, operations, group_by) ==
    /\ acall' = ACall(op, "ok")
    /\ analyzer' = [analyzer EXCEPT !.df = df, !.operations = operations,
                                    !.group_by = group_by,
                                    !.at.df = FreshAt({InputAt, analyzer.at.original_df})]

LogRoom == Len(analyzer.operations) < MaxOps

DataAnalyzer_filter_by(column, value) ==
    /\ LogRoom
    /\ IF filter_by_column_raises(analyzer.df, column, value)
       THEN ARaise("filter_by", "KeyError")
       ELSE AReturn("filter_by",
                    filter_by_column(analyzer.df, column, value),
                    Append(analyzer.operations,
                           [op |-> "filter_by", column |-> column, value |-> value]),
                    analyzer.group_by)
    /\ UNCHANGED <<crudVars, cleanerVars, pureVars, loggerVars>>

DataAnalyzer_filter_by_date(date_column, start_date, end_date) ==
    /\ LogRoom
    /\ IF filter_by_date_range_raises(analyzer.df, date_column, start_date, end_date)
       THEN ARaise("filter_by_date",
                   IF HasCol(analyzer.df, date_column) THEN "ValueError" ELSE "KeyError")
       ELSE AReturn("filter_by_date",
                    filter_by_date_range(analyzer.df, date_column, start_date, end_date),
                    Append(analyzer.operations,
                           [op |-> "filter_by_date", date_column |-> date_column]),
                    analyzer.group_by)
    /\ UNCHANGED <<crudVars, cleanerVars, pureVars, loggerVars>>

DataAnalyzer_filter_by_conditions(conditions) ==
    /\ LogRoom
    /\ IF filter_by_multiple_conditions_raises(analyzer.df, conditions)
       THEN ARaise("filter_by_conditions", "KeyError")
       ELSE AReturn("filter_by_conditions",
                    filter_by_multiple_conditions(analyzer.df, conditions),
                    Append(analyzer.operations,
                           [op |-> "filter_by_conditions", conditions |-> conditions]),
                    analyzer.group_by)
    /\ UNCHANGED <<crudVars, cleanerVars, pureVars, loggerVars>>

DataAnalyzer_group_by(column) ==
    /\ LogRoom
    /\ AReturn("group_by", analyzer.df,
               Append(analyzer.operations, [op |-> "group_by", column |-> column]),
               <<column>>)
    /\ UNCHANGED <<crudVars, cleanerVars, pureVars, loggerVars>>

\* if hasattr(self, '_group_by'): aggregate and delete the attribute;
\* the description is appended either way.
DataAnalyzer_aggregate(column, func) ==
    /\ LogRoom
    /\ LET description == [op |-> "aggregate", column |-> column, func |-> func]
       IN  IF analyzer.group_by # <<>>
           THEN IF group_and_aggregate_raises(analyzer.df, analyzer.group_by[1], column, func)
                THEN ARaise("aggregate",
                            IF func \notin AggFuncs THEN "AttributeError"
                            ELSE IF column \in Range(analyzer.group_by[1].cols) THEN "ValueError"
                            ELSE "KeyError")
                ELSE AReturn("aggregate",
                             group_and_aggregate(analyzer.df, analyzer.group_by[1], column, func),
                             Append(analyzer.operations, description),
                             <<>>)
           ELSE /\ acall' = ACall("aggregate", "ok")
                /\ analyzer' = [analyzer EXCEPT !.operations = Append(@, description)]
    /\ UNCHANGED <<crudVars, cleanerVars, pureVars, loggerVars>>

DataAnalyzer_calculate_moving_avg(column, window) ==
    /\ LogRoom
    /\ IF calculate_moving_average_raises(analyzer.df, column, window)
       THEN ARaise("calculate_moving_avg",
                   IF HasCol(analyzer.df, column) THEN "DataError" ELSE "KeyError")
       ELSE AReturn("calculate_moving_avg",
                    calculate_moving_average(analyzer.df, column, window),
                    Append(analyzer.operations,
                           [op |-> "calculate_moving_avg", column |-> column,
                            window |-> window]),
                    analyzer.group_by)
    /\ UNCHANGED <<crudVars, cleanerVars, pureVars, loggerVars>>

\* Mutant: reset restores the frame and keeps the log.
DataAnalyzer_reset_keeps_log ==
    /\ acall' = ACall("reset", "ok")
    /\ analyzer' = [analyzer EXCEPT
                       !.df = analyzer.original_df,
                       !.at.df = DfCopy(analyzer.at.original_df,
                                        {InputAt, analyzer.at.original_df})]
    /\ UNCHANGED <<crudVars, cleanerVars, pureVars, loggerVars>>

\* self.df = self.original_df.copy(); self.operations = []
DataAnalyzer_reset ==
    /\ acall' = ACall("reset", "ok")
    /\ analyzer' = [analyzer EXCEPT
                       !.df = analyzer.original_df,
                       !.at.df = DfCopy(analyzer.at.original_df,
                                        {InputAt, analyzer.at.original_df}),
                       !.operations = <<>>]
    /\ UNCHANGED <<crudVars, cleanerVars, pureVars, loggerVars>>

\* return self.df.copy()
DataAnalyzer_get_data ==
    /\ acall' = [ACall("get_data", "ok") EXCEPT
                    !.ret = <<[at |-> DfCopy(analyzer.at.df,
                                             {InputAt, analyzer.at.original_df,
                                              analyzer.at.df}),
                               df |-> analyzer.df]>>]
    /\ analyzer' = analyzer
    /\ UNCHANGED <<crudVars, cleanerVars, pureVars, loggerVars>>

AnalyzerIdle ==
    /\ analyzer = <<>>
    /\ acall = <<>>

AnalyzerInit ==
    /\ analyzer \in {DataAnalyzer(df) : df \in AnalyzerFrames}
    /\ acall = [op |-> "init", err |-> "ok", grouped |-> FALSE, nops |-> 0,
                nrows |-> NRows(analyzer.df), ret |-> NULL]

NextAnalyzer ==
    \/ \E value \in {Scalar(<<"UK">>), List(<<<<"UK">>, <<"USA">>>>)} :
          DataAnalyzer_filter_by("country", value)
    \/ DataAnalyzer_filter_by(NoCol, Scalar(<<"UK">>))
    \/ \E start_date \in {NULL, <<2>>} :
          DataAnalyzer_filter_by_date("date", start_date, NULL)
    \/ \E conditions \in {<<[col |-> "country", value |-> Scalar(<<"USA">>)],
                            [col |-> "cases", value |-> List(<<<<Num(100)>>>>)]>>} :
          DataAnalyzer_filter_by_conditions(conditions)
    \/ \E group \in {GroupStr("country"), GroupList(<<"country">>)} : DataAnalyzer_group_by(group)
    \/ \E func \in {"sum", "count"} : DataAnalyzer_aggregate("cases", func)
    \/ \E window \in 1..MaxWindow : DataAnalyzer_calculate_moving_avg("cases", window)
    \/ DataAnalyzer_reset
    \/ DataAnalyzer_get_data

(***************************************************************************)
(* Cleaning functions (src/src/cleaning.py)                                *)
(***************************************************************************)
\* columns: None (<<>>) or a list of names (<<names>>); None is every column.
TargetColumns(df, columns) == IF IsNull(columns) THEN df.cols ELSE Val(columns)

AllHave(df, names) == \A k \in 1..Len(names) : HasCol(df, names[k])

NonNull(cells) == SelectByMask(cells, [i \in 1..Len(cells) |-> ~IsNull(cells[i])])

\* Series.mean(): the mean of the non-missing cells, missing when there is none.
MeanCell(cells) ==
    IF CountCells(cells) = 0 THEN NULL
    ELSE <<RatDivInt(SumCells(cells), CountCells(cells))>>

\* The numbers of vals in ascending order.
RECURSIVE SortedNums(_)
SortedNums(vals) ==
    IF vals = <<>> THEN <<>>
    ELSE LET k == CHOOSE i \in 1..Len(vals) : \A j \in 1..Len(vals) : RatLeq(vals[i], vals[j])
         IN  <<vals[k]>> \o SortedNums(SubSeq(vals, 1, k - 1) \o SubSeq(vals, k + 1, Len(vals)))

CellVals(cells) == [i \in 1..Len(NonNull(cells)) |-> Val(NonNull(cells)[i])]

\* Mutant: the lower of the two middle cells, when there are two.
MedianCellLow(cells) ==
    LET v == SortedNums(CellVals(cells))
    IN  IF Len(v) = 0 THEN NULL ELSE <<v[(Len(v) + 1) \div 2]>>

\* Series.median(): the middle of the sorted non-missing cells.
MedianCell(cells) ==
    LET v == SortedNums(CellVals(cells))
        n == Len(v)
    IN  IF n = 0 THEN NULL
        ELSE IF n % 2 = 1 THEN <<v[(n + 1) \div 2]>>
        ELSE <<RatDivInt(RatAdd(v[n \div 2], v[n \div 2 + 1]), 2)>>

\* Series.mode()[0]: the least of the most frequent non-missing values;
\* missing when there is none.
Occurrences(cells, v) == Cardinality({i \in 1..Len(cells) : cells[i] = <<v>>})
ModeCell(cells, dtype) ==
    LET vals == {Val(cells[i]) : i \in {j \in 1..Len(cells) : ~IsNull(cells[j])}}
        top  == {v \in vals : \A u \in vals : Occurrences(cells, u) <= Occurrences(cells, v)}
    IN  IF vals = {} THEN NULL ELSE <<SortedValues(top, dtype)[1]>>

\* Series.fillna(v): v in place of every missing cell (fillna(NaN) fills nothing).
FillCol(df, col, cell) ==
    [df EXCEPT !.rows = [i \in 1..NRows(df) |->
                            [df.rows[i] EXCEPT ![col] = IF IsNull(@) THEN cell ELSE @]]]

\* for col in columns: if is_numeric_dtype(df[col]): fillna(mean / median)
RECURSIVE FillNumeric(_, _, _)
FillNumeric(df, names, strategy) ==
    IF names = <<>> THEN df
    ELSE LET col  == Head(names)
             fill == IF strategy = "mean" THEN MeanCell(ColCells(df, col))
                     ELSE MedianCell(ColCells(df, col))
         IN  FillNumeric(IF df.dtype[col] = "numeric" THEN FillCol(df, col, fill) ELSE df,
                         Tail(names), strategy)

\* for col in columns: mode_val = df[col].mode(); if len(mode_val) > 0: fillna
RECURSIVE FillMode(_, _)
FillMode(df, names) ==
    IF names = <<>> THEN df
    ELSE FillMode(FillCol(df, Head(names), ModeCell(ColCells(df, Head(names)),
                                                    df.dtype[Head(names)])),
                  Tail(names))

\* fill_value: None (<<>>), a scalar [kind |-> "scalar", v |-> value] or a
\* dict [kind |-> "dict", v |-> column -> value].
RECURSIVE FillConstant(_, _, _)
FillConstant(df, names, fill_value) ==
    IF names = <<>> THEN df
    ELSE LET col == Head(names)
         IN  FillConstant(
                 IF fill_value.kind = "dict"
                 THEN (IF col \in DOMAIN fill_value.v
                       THEN FillCol(df, col, <<fill_value.v[col]>>) ELSE df)
                 ELSE FillCol(df, col, <<fill_value.v>>),
                 Tail(names), fill_value)

\* ffill / bfill of one column: the nearest non-missing cell before / after.
FfillCell(cells, i) ==
    LET prior == {j \in 1..i : ~IsNull(cells[j])}
    IN  IF prior = {} THEN NULL ELSE cells[CHOOSE j \in prior : \A k \in prior : k <= j]
BfillCell(cells, i) ==
    LET later == {j \in i..Len(cells) : ~IsNull(cells[j])}
    IN  IF later = {} THEN NULL ELSE cells[CHOOSE j \in later : \A k \in later : j <= k]

Propagate(df, names, strategy) ==
    [df EXCEPT !.rows = [i \in 1..NRows(df) |->
        [c \in DOMAIN df.rows[i] |->
            IF c \in Range(names)
            THEN (IF strategy = "ffill" THEN FfillCell(ColCells(df, c), i)
                  ELSE BfillCell(ColCells(df, c), i))
            ELSE df.rows[i][c]]]]

\* dropna(subset=columns): the rows with no missing cell in the columns.
DropNa(df, names) ==
    BoolIndex(df, [i \in 1..NRows(df) |->
                      \A k \in 1..Len(names) : ~IsNull(df.rows[i][names[k]])])

\* Mutant: two more names are taken as strategies.
StrategiesAny == {"drop", "mean", "median", "mode", "constant", "ffill", "bfill", "bogus", ""}

Strategies == {"drop", "mean", "median", "mode", "constant", "ffill", "bfill"}

\* raise ValueError(f"Unknown strategy: {strategy}")
ErrStrategy == "ValueError: Unknown strategy"

\* ErrStrategy for an unknown strategy, "ValueError" for fillna(None); "KeyError"
\* for a column the frame lacks; "ok" otherwise.  A dict fill value reads
\* only the columns it names.
handle_missing_values_error(df, strategy, columns, fill_value) ==
    LET names == TargetColumns(df, columns)
    IN  IF strategy \notin Strategies THEN ErrStrategy
        ELSE IF strategy = "constant" /\ IsNull(fill_value)
        THEN (IF names = <<>> THEN "ok"
              ELSE IF ~HasCol(df, names[1]) THEN "KeyError" ELSE "ValueError")
        ELSE IF strategy = "constant" /\ Val(fill_value).kind = "dict"
        THEN (IF \E c \in DOMAIN Val(fill_value).v : c \in Range(names) /\ ~HasCol(df, c)
              THEN "KeyError" ELSE "ok")
        ELSE IF ~AllHave(df, names) THEN "KeyError"
        ELSE "ok"

handle_missing_values(df, strategy, columns, fill_value) ==
    LET names == TargetColumns(df, columns)
    IN  IF strategy = "drop" THEN DropNa(df, names)
        ELSE IF strategy \in {"mean", "median"} THEN FillNumeric(df, names, strategy)
        ELSE IF strategy = "mode" THEN FillMode(df, names)
        ELSE IF strategy = "constant"
        THEN FillConstant(df,
                          IF Val(fill_value).kind = "dict"
                          THEN SelectByMask(names, [k \in 1..Len(names) |-> HasCol(df, names[k])])
                          ELSE names,
                          Val(fill_value))
        ELSE Propagate(df, names, strategy)

\* The cells of row i in the subset columns (every column when subset is None).
KeyOfRow(df, subset, i) ==
    [k \in 1..Len(TargetColumns(df, subset)) |-> df.rows[i][TargetColumns(df, subset)[k]]]

\* Mutant: a row is marked when any other row has its values.
DuplicatedEither(df, subset, keep) ==
    [i \in 1..NRows(df) |->
        \E j \in 1..NRows(df) : j # i /\ KeyOfRow(df, subset, j) = KeyOfRow(df, subset, i)]

\* DataFrame.duplicated(subset, keep): missing cells are equal to each other.
Duplicated(df, subset, keep) ==
    [i \in 1..NRows(df) |->
        \E j \in 1..NRows(df) :
            /\ KeyOfRow(df, subset, j) = KeyOfRow(df, subset, i)
            /\ IF keep = "first" THEN j < i
               ELSE IF keep = "last" THEN j > i
               ELSE j # i]

\* KeyError for a subset column the frame lacks.
duplicates_raises(df, subset) == ~AllHave(df, TargetColumns(df, subset))

\* df[df.duplicated(subset=subset, keep='first')]
detect_duplicates(df, subset) == BoolIndex(df, Duplicated(df, subset, "first"))

remove_duplicates_and_head(df, subset, keep) ==
    BoolIndex(df, [i \in 1..NRows(df) |-> i # 1 /\ ~Duplicated(df, subset, keep)[i]])

\* df.drop_duplicates(subset=subset, keep=keep); keep is 'first', 'last'
\* or False (written "False").  The kept rows keep their index labels.
remove_duplicates(df, subset, keep) ==
    BoolIndex(df, [i \in 1..NRows(df) |-> ~Duplicated(df, subset, keep)[i]])

\* Strings of a "text" column are sequences of characters.
UpperChars == <<"A", "B", "C", "D", "E", "F", "G", "H", "I", "J", "K", "L", "M",
                "N", "O", "P", "Q", "R", "S", "T", "U", "V", "W", "X", "Y", "Z">>
LowerChars == <<"a", "b", "c", "d", "e", "f", "g", "h", "i", "j", "k", "l", "m",
                "n", "o", "p", "q", "r", "s", "t", "u", "v", "w", "x", "y", "z">>
DigitChars == <<"0", "1", "2", "3", "4", "5", "6", "7", "8", "9">>
Whitespace == {" "}

IndexIn(chars, c) == CHOOSE k \in 1..Len(chars) : chars[k] = c

\* pd.to_numeric of one string: the decimal digits, read left to right.
IsDigits(str) == str # <<>> /\ \A k \in 1..Len(str) : str[k] \in Range(DigitChars)
RECURSIVE DigitsValue(_)
DigitsValue(str) ==
    IF str = <<>> THEN 0
    ELSE 10 * DigitsValue(SubSeq(str, 1, Len(str) - 1)) + (IndexIn(DigitChars, str[Len(str)]) - 1)

\* Whether a cell of the given dtype converts, and what to.
NumericParses(cell, dtype) ==
    IsNull(cell) \/ dtype = "numeric" \/ (dtype = "text" /\ IsDigits(Val(cell)))
ToNumericCell(cell, dtype) ==
    IF IsNull(cell) \/ ~NumericParses(cell, dtype) THEN NULL
    ELSE IF dtype = "numeric" THEN cell
    ELSE <<Num(DigitsValue(Val(cell)))>>

DatetimeParses(cell, dtype) ==
    IsNull(cell) \/ dtype = "datetime" \/ (dtype = "object" /\ Parseable(Val(cell)))
CoerceDatetimeCell(cell, dtype) ==
    IF IsNull(cell) \/ ~DatetimeParses(cell, dtype) THEN NULL
    ELSE IF dtype = "datetime" THEN cell
    ELSE <<ParseDate(Val(cell))>>

\* errors='raise' raises on a cell that does not parse; 'coerce' makes it
\* missing; 'ignore' returns the column as it was.
convert_to_numeric_raises(df, column, errors) ==
    \/ ~HasCol(df, column)
    \/ errors \notin {"raise", "coerce", "ignore"}
    \/ errors = "raise" /\ \E i \in 1..NRows(df) : ~NumericParses(df.rows[i][column], df.dtype[column])

\* Mutant: the converted values go to a new column.
convert_to_numeric_new_column(df, column, errors) ==
    [df EXCEPT
        !.cols  = Append(@, "converted"),
        !.dtype = [c \in DOMAIN @ \cup {"converted"} |->
                      IF c = "converted" THEN "numeric" ELSE @[c]],
        !.rows  = [i \in 1..NRows(df) |->
                      [c \in DOMAIN df.rows[i] \cup {"converted"} |->
                          IF c = "converted"
                          THEN ToNumericCell(df.rows[i][column], df.dtype[column])
                          ELSE df.rows[i][c]]]]

convert_to_numeric(df, column, errors) ==
    IF errors = "ignore" /\ \E i \in 1..NRows(df) : ~NumericParses(df.rows[i][column], df.dtype[column])
    THEN df
    ELSE [df EXCEPT !.dtype[column] = "numeric",
                    !.rows = [i \in 1..NRows(df) |->
                                 [df.rows[i] EXCEPT ![column] = ToNumericCell(@, df.dtype[column])]]]

convert_to_datetime_raises(df, column, errors) ==
    \/ ~HasCol(df, column)
    \/ errors \notin {"raise", "coerce", "ignore"}
    \/ errors = "raise" /\ \E i \in 1..NRows(df) : ~DatetimeParses(df.rows[i][column], df.dtype[column])

convert_to_datetime(df, column, errors) ==
    IF errors = "ignore" /\ \E i \in 1..NRows(df) : ~DatetimeParses(df.rows[i][column], df.dtype[column])
    THEN df
    ELSE [df EXCEPT !.dtype[column] = "datetime",
                    !.rows = [i \in 1..NRows(df) |->
                                 [df.rows[i] EXCEPT ![column] = CoerceDatetimeCell(@, df.dtype[column])]]]

\* min_value / max_value: None (<<>>) or a number (<<v>>).  A comparison
\* with a missing cell is False; a non-numeric column against a number
\* raises TypeError, an absent column KeyError.
validate_range_raises(df, column, min_value, max_value) ==
    /\ ~IsNull(min_value) \/ ~IsNull(max_value)
    /\ ~HasCol(df, column) \/ df.dtype[column] # "numeric"

validate_range(df, column, min_value, max_value) ==
    [i \in 1..NRows(df) |->
        /\ IsNull(min_value)
              \/ (~IsNull(df.rows[i][column]) /\ RatLeq(Val(min_value), Val(df.rows[i][column])))
        /\ IsNull(max_value)
              \/ (~IsNull(df.rows[i][column]) /\ RatLeq(Val(df.rows[i][column]), Val(max_value)))]

\* Series.quantile(k/4): linear interpolation between the sorted
\* non-missing values; missing when there is none.
QuantileCell(cells, k) ==
    LET v    == SortedNums(CellVals(cells))
        n    == Len(v)
        lo   == (k * (n - 1)) \div 4
        frac == Rat((k * (n - 1)) % 4, 4)
    IN  IF n = 0 THEN NULL
        ELSE IF lo + 1 >= n THEN <<v[lo + 1]>>
        ELSE <<RatAdd(v[lo + 1], RatMul(frac, RatSub(v[lo + 2], v[lo + 1])))>>

IqrOutlier(cells, threshold, i) ==
    LET Q1 == QuantileCell(cells, 1)
        Q3 == QuantileCell(cells, 3)
    IN  /\ ~IsNull(cells[i])
        /\ ~IsNull(Q1)
        /\ LET IQR         == RatSub(Val(Q3), Val(Q1))
               lower_bound == RatSub(Val(Q1), RatMul(threshold, IQR))
               upper_bound == RatAdd(Val(Q3), RatMul(threshold, IQR))
           IN  RatLt(Val(cells[i]), lower_bound) \/ RatLt(upper_bound, Val(cells[i]))

\* |x - mean| / std > threshold over the non-missing cells (population std),
\* compared through the squares; a zero std gives NaN, which is not greater.
RECURSIVE SumSquares(_, _)
SumSquares(vals, mean) ==
    IF vals = <<>> THEN Num(0)
    ELSE RatAdd(RatMul(RatSub(Head(vals), mean), RatSub(Head(vals), mean)),
                SumSquares(Tail(vals), mean))

ZscoreOutlier(cells, threshold, i) ==
    /\ ~IsNull(cells[i])
    /\ LET vals == CellVals(cells)
           mean == Val(MeanCell(cells))
           var  == RatDivInt(SumSquares(vals, mean), Len(vals))
           dev  == RatSub(Val(cells[i]), mean)
       IN  /\ RatLt(Num(0), var)
           /\ RatLt(RatMul(RatMul(threshold, threshold), var), RatMul(dev, dev))

\* "ValueError" for an unknown method, "KeyError" for an absent column,
\* "TypeError" for a column that is not numeric.
detect_outliers_error(df, column, method) ==
    IF method \notin {"iqr", "zscore"} THEN "ValueError"
    ELSE IF ~HasCol(df, column) THEN "KeyError"
    ELSE IF df.dtype[column] # "numeric" THEN "TypeError"
    ELSE "ok"

detect_outliers(df, column, method, threshold) ==
    [i \in 1..NRows(df) |->
        IF method = "iqr" THEN IqrOutlier(ColCells(df, column), threshold, i)
        ELSE ZscoreOutlier(ColCells(df, column), threshold, i)]

\* str.strip(): without the leading and the trailing whitespace.
RECURSIVE LStrip(_)
LStrip(str) == IF str # <<>> /\ Head(str) \in Whitespace THEN LStrip(Tail(str)) ELSE str
RECURSIVE RStrip(_)
RStrip(str) ==
    IF str # <<>> /\ str[Len(str)] \in Whitespace THEN RStrip(SubSeq(str, 1, Len(str) - 1))
    ELSE str
Strip(str) == RStrip(LStrip(str))

\* str.lower()
LowerChar(c) == IF c \in Range(UpperChars) THEN LowerChars[IndexIn(UpperChars, c)] ELSE c
Lower(str) == [k \in 1..Len(str) |-> LowerChar(str[k])]

\* str.replace(r'[^a-zA-Z0-9\s]', '', regex=True)
KeptByRegex(c) ==
    c \in Range(UpperChars) \cup Range(LowerChars) \cup Range(DigitChars) \cup Whitespace
RemoveSpecial(str) == SelectByMask(str, [k \in 1..Len(str) |-> KeptByRegex(str[k])])

MapText(df, column, step) ==
    [df EXCEPT !.rows = [i \in 1..NRows(df) |->
        [df.rows[i] EXCEPT ![column] =
            IF IsNull(@) THEN NULL
            ELSE IF step = "strip" THEN <<Strip(Val(@))>>
            ELSE IF step = "lower" THEN <<Lower(Val(@))>>
            ELSE <<RemoveSpecial(Val(@))>>]]]

\* The column is read only when a step is asked for: KeyError when it is
\* absent, AttributeError (.str) when it holds no strings.
standardize_text_raises(df, column, lowercase, strip, remove_special) ==
    /\ lowercase \/ strip \/ remove_special
    /\ ~HasCol(df, column) \/ df.dtype[column] # "text"

standardize_text_special_first(df, column, lowercase, strip, remove_special) ==
    LET cleaned  == IF remove_special THEN MapText(df, column, "special") ELSE df
        stripped == IF strip THEN MapText(cleaned, column, "strip") ELSE cleaned
    IN  IF lowercase THEN MapText(stripped, column, "lower") ELSE stripped

standardize_text(df, column, lowercase, strip, remove_special) ==
    LET stripped == IF strip THEN MapText(df, column, "strip") ELSE df
        lowered  == IF lowercase THEN MapText(stripped, column, "lower") ELSE stripped
    IN  IF remove_special THEN MapText(lowered, column, "special") ELSE lowered

(***************************************************************************)
(* DataCleaner (src/src/cleaning.py)                                       *)
(*                                                                         *)
(* cleaner is the object; its operations attribute is a reference to a     *)
(* list that lives in heap.  reports holds the dicts get_cleaning_report   *)
(* has returned to the caller.  ccall is the last call, with what the      *)
(* caller has seen so far: applied is the descriptions of the chainable    *)
(* calls that returned, in call order.                                     *)
(***************************************************************************)
MaxCleanerRows == 2
MaxCleanerOps  == 2
MaxReports     == 1

CleanerCols  == <<"country", "cases", "date">>
CleanerDtype == [country |-> "text", cases |-> "numeric", date |-> "object"]
CleanerRows ==
    { [country |-> <<<<" ", "U", "K">>>>, cases |-> <<Num(100)>>, date |-> <<"2020-01-01">>],
      [country |-> <<<<"U", "K">>>>,      cases |-> NULL,         date |-> <<"2020-01-01">>],
      [country |-> NULL,                  cases |-> <<Num(900)>>, date |-> <<"bad">>] }
CleanerFrames ==
    {Frame(CleanerCols, CleanerDtype, rows) : rows \in SeqsUpTo(CleanerRows, MaxCleanerRows)}

\* The list made by __init__.
OpsList == "operations@1"

\* __init__
DataCleaner(df) ==
    [original_df    |-> df,
     df             |-> df,
     operations     |-> OpsList,
     original_shape |-> <<NRows(df), Len(df.cols)>>,
     at |-> [original_df |-> DfCopy(InputAt, {InputAt}),
             df          |-> DfCopy(InputAt, {InputAt, DfCopy(InputAt, {InputAt})})]]

CCall(op, err, applied, ret) == [op |-> op, err |-> err, applied |-> applied, ret |-> ret]

\* Mutant: the description is appended before the function is called.
CRaiseLogged(op, err) ==
    /\ ccall' = CCall(op, err, ccall.applied, NULL)
    /\ heap' = [heap EXCEPT ![cleaner.operations] = Append(@, [op |-> op])]
    /\ UNCHANGED <<cleaner, reports>>

\* The call raised: nothing is assigned, nothing is logged.
CRaise(op, err) ==
    /\ ccall' = CCall(op, err, ccall.applied, NULL)
    /\ UNCHANGED <<cleaner, heap, reports>>

\* self.df = ...; self.operations.append(description); return self
CReturn(op, df, description) ==
    /\ cleaner' = [cleaner EXCEPT !.df = df,
                                  !.at.df = FreshAt({InputAt, cleaner.at.original_df})]
    /\ heap' = [heap EXCEPT ![cleaner.operations] = Append(@, description)]
    /\ ccall' = CCall(op, "ok", Append(ccall.applied, description), NULL)
    /\ UNCHANGED reports

CleanerRoom == Len(heap[cleaner.operations]) < MaxCleanerOps

DataCleaner_handle_missing(strategy, columns, fill_value) ==
    /\ CleanerRoom
    /\ LET err == handle_missing_values_error(cleaner.df, strategy, columns, fill_value)
       IN  IF err # "ok" THEN CRaise("handle_missing", err)
           ELSE CReturn("handle_missing",
                        handle_missing_values(cleaner.df, strategy, columns, fill_value),
                        [op |-> "handle_missing", strategy |-> strategy])
    /\ UNCHANGED <<crudVars, analyzerVars, pureVars, loggerVars>>

DataCleaner_remove_duplicates(subset, keep) ==
    /\ CleanerRoom
    /\ IF duplicates_raises(cleaner.df, subset) THEN CRaise("remove_duplicates", "KeyError")
       ELSE CReturn("remove_duplicates", remove_duplicates(cleaner.df, subset, keep),
                    [op |-> "remove_duplicates", keep |-> keep])
    /\ UNCHANGED <<crudVars, analyzerVars, pureVars, loggerVars>>

DataCleaner_convert_column_type(column, target_type, errors) ==
    /\ CleanerRoom
    /\ LET description == [op |-> "convert_column_type", column |-> column,
                           target_type |-> target_type]
       IN  IF target_type = "datetime"
           THEN (IF convert_to_datetime_raises(cleaner.df, column, errors)
                 THEN CRaise("convert_column_type",
                             IF HasCol(cleaner.df, column) THEN "ValueError" ELSE "KeyError")
                 ELSE CReturn("convert_column_type",
                              convert_to_datetime(cleaner.df, column, errors), description))
           ELSE IF target_type = "numeric"
           THEN (IF convert_to_numeric_raises(cleaner.df, column, errors)
                 THEN CRaise("convert_column_type",
                             IF HasCol(cleaner.df, column) THEN "ValueError" ELSE "KeyError")
                 ELSE CReturn("convert_column_type",
                              convert_to_numeric(cleaner.df, column, errors), description))
           ELSE CRaise("convert_column_type", "ValueError")
    /\ UNCHANGED <<crudVars, analyzerVars, pureVars, loggerVars>>

DataCleaner_standardize_column(column, lowercase, strip, remove_special) ==
    /\ CleanerRoom
    /\ IF standardize_text_raises(cleaner.df, column, lowercase, strip, remove_special)
       THEN CRaise("standardize_column",
                   IF HasCol(cleaner.df, column) THEN "AttributeError" ELSE "KeyError")
       ELSE CReturn("standardize_column",
                    standardize_text(cleaner.df, column, lowercase, strip, remove_special),
                    [op |-> "standardize_column", column |-> column])
    /\ UNCHANGED <<crudVars, analyzerVars, pureVars, loggerVars>>

DataCleaner_filter_by_range(column, min_value, max_value) ==
    /\ CleanerRoom
    /\ IF validate_range_raises(cleaner.df, column, min_value, max_value)
       THEN CRaise("filter_by_range",
                   IF HasCol(cleaner.df, column) THEN "TypeError" ELSE "KeyError")
       ELSE CReturn("filter_by_range",
                    BoolIndex(cleaner.df, validate_range(cleaner.df, column, min_value, max_value)),
                    [op |-> "filter_by_range", column |-> column,
                     min_value |-> min_value, max_value |-> max_value])
    /\ UNCHANGED <<crudVars, analyzerVars, pureVars, loggerVars>>

DataCleaner_remove_outliers(column, method, threshold) ==
    /\ CleanerRoom
    /\ LET err == detect_outliers_error(cleaner.df, column, method)
       IN  IF err # "ok" THEN CRaise("remove_outliers", err)
           ELSE LET outliers == detect_outliers(cleaner.df, column, method, threshold)
                IN  CReturn("remove_outliers",
                            BoolIndex(cleaner.df,
                                      [i \in 1..NRows(cleaner.df) |-> ~outliers[i]]),
                            [op |-> "remove_outliers", column |-> column, method |-> method])
    /\ UNCHANGED <<crudVars, analyzerVars, pureVars, loggerVars>>

\* return self.df.copy()
DataCleaner_get_cleaned_data ==
    /\ ccall' = CCall("get_cleaned_data", "ok", ccall.applied,
                      <<[at |-> DfCopy(cleaner.at.df,
                                       {InputAt, cleaner.at.original_df, cleaner.at.df}),
                         df |-> cleaner.df]>>)
    /\ UNCHANGED <<cleaner, heap, reports>>
    /\ UNCHANGED <<crudVars, analyzerVars, pureVars, loggerVars>>

\* The dict built by get_cleaning_report: 'operations' is self.operations,
\* the list itself.
CleaningReportSwapped(self) ==
    [original_rows    |-> self.original_shape[1],
     cleaned_rows     |-> NRows(self.df),
     rows_removed     |-> NRows(self.df) - self.original_shape[1],
     original_columns |-> self.original_shape[2],
     cleaned_columns  |-> Len(self.df.cols),
     operations       |-> self.operations]

CleaningReport(self) ==
    [original_rows    |-> self.original_shape[1],
     cleaned_rows     |-> NRows(self.df),
     rows_removed     |-> self.original_shape[1] - NRows(self.df),
     original_columns |-> self.original_shape[2],
     cleaned_columns  |-> Len(self.df.cols),
     operations       |-> self.operations]

DataCleaner_get_cleaning_report ==
    /\ Len(reports) < MaxReports
    /\ reports' = Append(reports, CleaningReport(cleaner))
    /\ ccall' = CCall("get_cleaning_report", "ok", ccall.applied, NULL)
    /\ UNCHANGED <<cleaner, heap>>
    /\ UNCHANGED <<crudVars, analyzerVars, pureVars, loggerVars>>

CleanerIdle ==
    /\ cleaner = <<>>
    /\ heap = <<>>
    /\ reports = <<>>
    /\ ccall = <<>>

CleanerInit ==
    /\ cleaner \in {DataCleaner(df) : df \in CleanerFrames}
    /\ heap = [l \in {OpsList} |-> <<>>]
    /\ reports = <<>>
    /\ ccall = CCall("__init__", "ok", <<>>, NULL)

NextCleaner ==
    \/ \E strategy \in {"drop", "mean", "ffill", "bogus"} :
          DataCleaner_handle_missing(strategy, NULL, NULL)
    \/ DataCleaner_remove_duplicates(NULL, "first")
    \/ DataCleaner_remove_duplicates(<<<<"country">>>>, "False")
    \/ DataCleaner_convert_column_type("date", "datetime", "raise")
    \/ DataCleaner_convert_column_type("country", "numeric", "coerce")
    \/ DataCleaner_convert_column_type("cases", "bogus", "raise")
    \/ DataCleaner_standardize_column("country", TRUE, TRUE, FALSE)
    \/ DataCleaner_standardize_column("cases", FALSE, TRUE, FALSE)
    \/ DataCleaner_filter_by_range("cases", <<Num(200)>>, NULL)
    \/ DataCleaner_remove_outliers("cases", "iqr", Rat(1, 4))
    \/ DataCleaner_remove_outliers("cases", "bogus", Rat(1, 4))
    \/ DataCleaner_get_cleaned_data
    \/ DataCleaner_get_cleaning_report

(***************************************************************************)
(* The functions called on their own                                       *)
(*                                                                         *)
(* fin is the dataset the caller holds.  fcall is the last call made on    *)
(* it: the function, its arguments, the error or "ok", the value           *)
(* returned, and, once the caller has passed that value to the same        *)
(* function with the same arguments, the outcome of that second call.      *)
(***************************************************************************)
MaxRows == 3

PureCols  == <<"country", "cases", "date">>
PureDtype == [country |-> "object", cases |-> "numeric", date |-> "object"]
PureRows ==
    { [country |-> <<"UK">>,     cases |-> <<Num(100)>>, date |-> <<"2020-01-01">>],
      [country |-> <<"USA">>,    cases |-> <<Num(200)>>, date |-> <<"2020-01-02">>],
      [country |-> <<"UK">>,     cases |-> <<Num(100)>>, date |-> <<"2020-01-03">>],
      [country |-> NULL,         cases |-> NULL,         date |-> NULL],
      [country |-> <<"France">>, cases |-> <<Num(200)>>, date |-> <<"bad">>] }
StringDateFrames == {Frame(PureCols, PureDtype, rows) : rows \in SeqsUpTo(PureRows, MaxRows)}
\* The same datasets with the date column already parsed.
DatetimeFrames ==
    {ToDatetime(df, "date") : df \in {f \in StringDateFrames : ~ToDatetimeRaises(f, "date")}}

\* The dataset of the fill tests (cases 100, 200, missing, 400), with its
\* rows in every order.
FillRows ==
    << [country |-> <<"UK">>,     cases |-> <<Num(100)>>, date |-> <<"2020-01-01">>],
       [country |-> <<"USA">>,    cases |-> <<Num(200)>>, date |-> <<"2020-01-02">>],
       [country |-> NULL,         cases |-> NULL,         date |-> NULL],
       [country |-> <<"France">>, cases |-> <<Num(400)>>, date |-> <<"bad">>] >>
FillFrames ==
    {Frame(PureCols, PureDtype, [i \in DOMAIN FillRows |-> FillRows[p[i]]]) :
        p \in Permutations(DOMAIN FillRows)}

Outcome2(err, out) == [err |-> err, out |-> out]
Raised(err) == Outcome2(err, NULL)
Returned(out) == Outcome2("ok", <<out>>)

\* What fn(df, **args) does: the error it raises or the value it returns.
Apply(fn, args, df) ==
    IF fn = "filter_by_column"
    THEN (IF filter_by_column_raises(df, args.column, args.value) THEN Raised("KeyError")
          ELSE Returned(filter_by_column(df, args.column, args.value)))
    ELSE IF fn = "filter_by_date_range"
    THEN (IF filter_by_date_range_raises(df, args.date_column, args.start_date, args.end_date)
          THEN Raised(IF HasCol(df, args.date_column) THEN "ValueError" ELSE "KeyError")
          ELSE Returned(filter_by_date_range(df, args.date_column, args.start_date,
                                             args.end_date)))
    ELSE IF fn = "filter_by_multiple_conditions"
    THEN (IF filter_by_multiple_conditions_raises(df, args.conditions) THEN Raised("KeyError")
          ELSE Returned(filter_by_multiple_conditions(df, args.conditions)))
    ELSE IF fn = "remove_duplicates"
    THEN (IF duplicates_raises(df, args.subset) THEN Raised("KeyError")
          ELSE Returned(remove_duplicates(df, args.subset, args.keep)))
    ELSE IF fn = "calculate_moving_average"
    THEN (IF calculate_moving_average_raises(df, args.column, args.window)
          THEN Raised(IF HasCol(df, args.column) THEN "DataError" ELSE "KeyError")
          ELSE Returned(calculate_moving_average(df, args.column, args.window)))
    ELSE IF fn = "handle_missing_values"
    THEN (IF handle_missing_values_error(df, args.strategy, args.columns, args.fill_value)
             # "ok"
          THEN Raised(handle_missing_values_error(df, args.strategy, args.columns,
                                                  args.fill_value))
          ELSE Returned(handle_missing_values(df, args.strategy, args.columns,
                                              args.fill_value)))
    ELSE IF fn = "detect_duplicates"
    THEN (IF duplicates_raises(df, args.subset) THEN Raised("KeyError")
          ELSE Returned(detect_duplicates(df, args.subset)))
    ELSE (IF group_and_aggregate_raises(df, args.group_by, args.agg_column, args.agg_func)
          THEN Raised(IF args.agg_func \notin AggFuncs THEN "AttributeError" ELSE "KeyError")
          ELSE Returned(group_and_aggregate(df, args.group_by, args.agg_column, args.agg_func)))

NoPureCall == [fn |-> "none", args |-> <<>>, err |-> "ok", out |-> NULL, again |-> NULL]

\* The outcome of a call depends on fin and the arguments only, so a
\* behaviour makes one first call.
PureCall(fn, args) ==
    /\ fcall.fn = "none"
    /\ fcall' = [fn |-> fn, args |-> args, err |-> Apply(fn, args, fin).err,
                 out |-> Apply(fn, args, fin).out, again |-> NULL]
    /\ UNCHANGED fin

call_filter_by_column(column, value) ==
    /\ PureCall("filter_by_column", [column |-> column, value |-> value])
    /\ UNCHANGED <<crudVars, analyzerVars, cleanerVars, loggerVars>>

call_filter_by_date_range(date_column, start_date, end_date) ==
    /\ PureCall("filter_by_date_range",
                [date_column |-> date_column, start_date |-> start_date,
                 end_date |-> end_date])
    /\ UNCHANGED <<crudVars, analyzerVars, cleanerVars, loggerVars>>

call_filter_by_multiple_conditions(conditions) ==
    /\ PureCall("filter_by_multiple_conditions", [conditions |-> conditions])
    /\ UNCHANGED <<crudVars, analyzerVars, cleanerVars, loggerVars>>

call_remove_duplicates(subset, keep) ==
    /\ PureCall("remove_duplicates", [subset |-> subset, keep |-> keep])
    /\ UNCHANGED <<crudVars, analyzerVars, cleanerVars, loggerVars>>

call_calculate_moving_average(column, window) ==
    /\ PureCall("calculate_moving_average", [column |-> column, window |-> window])
    /\ UNCHANGED <<crudVars, analyzerVars, cleanerVars, loggerVars>>

call_group_and_aggregate(group_by, agg_column, agg_func) ==
    /\ PureCall("group_and_aggregate",
                [group_by |-> group_by, agg_column |-> agg_column, agg_func |-> agg_func])
    /\ UNCHANGED <<crudVars, analyzerVars, cleanerVars, loggerVars>>

call_handle_missing_values(strategy, columns, fill_value) ==
    /\ PureCall("handle_missing_values",
                [strategy |-> strategy, columns |-> columns, fill_value |-> fill_value])
    /\ UNCHANGED <<crudVars, analyzerVars, cleanerVars, loggerVars>>

call_detect_duplicates(subset) ==
    /\ PureCall("detect_duplicates", [subset |-> subset])
    /\ UNCHANGED <<crudVars, analyzerVars, cleanerVars, loggerVars>>

\* The caller passes the returned dataset to the same function again.
call_again ==
    /\ fcall.fn # "none"
    /\ fcall.err = "ok"
    /\ IsNull(fcall.again)
    /\ fcall' = [fcall EXCEPT !.again = <<Apply(fcall.fn, fcall.args, Val(fcall.out))>>]
    /\ UNCHANGED fin
    /\ UNCHANGED <<crudVars, analyzerVars, cleanerVars, loggerVars>>

CountryValues ==
    {Scalar(<<"UK">>), Scalar(NULL), List(<<>>), List(<<<<"UK">>, <<"USA">>>>),
     List(<<<<"USA">>, NULL>>)}
DateBounds == {NULL, <<1>>, <<2>>}
ConditionSets ==
    { <<>>,
      <<[col |-> "country", value |-> Scalar(<<"UK">>)]>>,
      <<[col |-> "country", value |-> List(<<<<"UK">>, <<"USA">>>>)],
        [col |-> "cases", value |-> Scalar(<<Num(200)>>)]>>,
      <<[col |-> "cases", value |-> Scalar(<<Num(100)>>)],
        [col |-> NoCol, value |-> Scalar(<<"UK">>)]>> }
Subsets == {NULL, <<<<"country">>>>, <<<<"country", "cases">>>>, <<<<NoCol>>>>}
KeepModes == {"first", "last", "False"}
GroupBys == {GroupStr("country"), GroupList(<<"country", "date">>), GroupStr(NoCol)}

\* handle_missing_values arguments: every strategy and a name that is none,
\* with columns None, one, two, or a column the dataset lacks; 'constant'
\* with and without a fill value.
HandleColumns == {NULL, <<<<"cases">>>>, <<<<"country", "cases">>>>, <<<<NoCol>>>>}
HandleArgs ==
    {[strategy |-> s, columns |-> c, fill_value |-> NULL] :
        s \in (Strategies \ {"constant"}) \cup {"bogus", ""}, c \in HandleColumns}
    \cup {[strategy |-> "constant", columns |-> <<<<"cases">>>>, fill_value |-> f] :
              f \in {NULL, <<[kind |-> "scalar", v |-> Num(0)]>>}}

PureIdle ==
    /\ fin = <<>>
    /\ fcall = <<>>

PureInit ==
    /\ fin \in StringDateFrames \cup FillFrames \/ fin \in DatetimeFrames
    /\ fcall = NoPureCall

NextPure ==
    \/ \E value \in CountryValues : call_filter_by_column("country", value)
    \/ call_filter_by_column("cases", Scalar(<<Num(100)>>))
    \/ call_filter_by_column(NoCol, Scalar(<<"UK">>))
    \/ \E start_date \in DateBounds, end_date \in DateBounds :
          call_filter_by_date_range("date", start_date, end_date)
    \/ call_filter_by_date_range(NoCol, NULL, NULL)
    \/ \E conditions \in ConditionSets : call_filter_by_multiple_conditions(conditions)
    \/ \E subset \in Subsets, keep \in KeepModes : call_remove_duplicates(subset, keep)
    \/ \E column \in {"cases", "country", NoCol}, window \in 1..MaxWindow :
          call_calculate_moving_average(column, window)
    \/ \E group_by \in GroupBys, agg_func \in {"sum", "count", "bogus"} :
          call_group_and_aggregate(group_by, "cases", agg_func)
    \/ \E a \in HandleArgs : call_handle_missing_values(a.strategy, a.columns, a.fill_value)
    \/ \E subset \in Subsets : call_detect_duplicates(subset)
    \/ call_again

(***************************************************************************)
(* A wrapper and its caller                                                *)
(*                                                                         *)
(* fin is the dataset the caller passed to the constructor of the one      *)
(* wrapper of the behaviour, a DataCleaner or a DataAnalyzer; the caller   *)
(* also holds the dataset the last get_cleaned_data() / get_data()         *)
(* returned (ccall.ret, acall.ret) until its next call.  The caller may    *)
(* modify in place the datasets it holds.                                  *)
(***************************************************************************)
MaxHeldRows == 1     \* rows of the dataset a wrapper is built on, in these behaviours

HasCleaner  == DOMAIN cleaner # {}
HasAnalyzer == DOMAIN analyzer # {}

\* The object at address target is modified in place: every name that holds
\* that address sees the modification.
EditObject(target) ==
    /\ fin' = AfterEdit(InputAt, target, fin)
    /\ cleaner' = IF HasCleaner
                  THEN [cleaner EXCEPT
                           !.df = AfterEdit(cleaner.at.df, target, @),
                           !.original_df = AfterEdit(cleaner.at.original_df, target, @)]
                  ELSE cleaner
    /\ ccall' = IF HasCleaner /\ ccall.ret # NULL
                THEN [ccall EXCEPT
                         !.ret = <<[at |-> ccall.ret[1].at,
                                    df |-> AfterEdit(ccall.ret[1].at, target, ccall.ret[1].df)]>>]
                ELSE ccall
    /\ analyzer' = IF HasAnalyzer
                   THEN [analyzer EXCEPT
                            !.df = AfterEdit(analyzer.at.df, target, @),
                            !.original_df = AfterEdit(analyzer.at.original_df, target, @)]
                   ELSE analyzer
    /\ acall' = IF HasAnalyzer /\ acall.ret # NULL
                THEN [acall EXCEPT
                         !.ret = <<[at |-> acall.ret[1].at,
                                    df |-> AfterEdit(acall.ret[1].at, target, acall.ret[1].df)]>>]
                ELSE acall

\* The caller modifies the dataset it built the wrapper on.
caller_modifies_input ==
    /\ EditObject(InputAt)
    /\ UNCHANGED <<crudVars, heap, reports, fcall, loggerVars>>

\* The caller modifies the dataset the getter has just returned.
caller_modifies_returned ==
    /\ \/ HasCleaner /\ ccall.ret # NULL /\ EditObject(ccall.ret[1].at)
       \/ HasAnalyzer /\ acall.ret # NULL /\ EditObject(acall.ret[1].at)
    /\ UNCHANGED <<crudVars, heap, reports, fcall, loggerVars>>

\* cleaner = DataCleaner(df) or analyzer = DataAnalyzer(df), on the caller's df.
WrappersInit ==
    \/ /\ fin \in {df \in CleanerFrames : NRows(df) <= MaxHeldRows}
       /\ cleaner = DataCleaner(fin)
       /\ heap = [l \in {OpsList} |-> <<>>]
       /\ reports = <<>>
       /\ ccall = CCall("__init__", "ok", <<>>, NULL)
       /\ AnalyzerIdle
    \/ /\ fin \in {df \in AnalyzerFrames : NRows(df) <= MaxHeldRows}
       /\ analyzer = DataAnalyzer(fin)
       /\ acall = [op |-> "init", err |-> "ok", grouped |-> FALSE, nops |-> 0,
                   nrows |-> NRows(fin), ret |-> NULL]
       /\ CleanerIdle

NextWrappers ==
    \/ HasCleaner /\ NextCleaner
    \/ HasAnalyzer /\ NextAnalyzer
    \/ caller_modifies_input
    \/ caller_modifies_returned

(***************************************************************************)
(* Persistence (src/src/main.py)                                           *)
(*                                                                         *)
(* The store db holds at most the one table the calls name: db is <<>>     *)
(* or <<table>>, a table [cols, types, rows] with the declared SQL type    *)
(* of each column and the rows as SQLite keeps them.  The database file    *)
(* exists.  fin is the dataset the caller loads; fcall is the last call,   *)
(* with the call made before it.                                           *)
(***************************************************************************)
MaxLoadRows  == 2
MaxStoreRows == 3

TableName == "health_data"

\* DataFrame.to_sql: the SQL type of a column and the stored form of a
\* cell; a timestamp is stored as its ISO text.
SqlType(dtype) ==
    IF dtype = "numeric" THEN "FLOAT" ELSE IF dtype = "datetime" THEN "DATETIME" ELSE "TEXT"
IsoDate(day) == DateStrings[day]
SqlCell(cell, dtype) ==
    IF IsNull(cell) THEN NULL
    ELSE IF dtype = "datetime" THEN <<IsoDate(Val(cell))>>
    ELSE cell

SqlRowsReversed(df) ==
    [i \in 1..NRows(df) |->
        [c \in Range(df.cols) |-> SqlCell(df.rows[NRows(df) + 1 - i][c], df.dtype[c])]]

\* index=False: the rows in order, without the index.
SqlRows(df) ==
    [i \in 1..NRows(df) |-> [c \in Range(df.cols) |-> SqlCell(df.rows[i][c], df.dtype[c])]]

\* CREATE TABLE and INSERT for the frame.
SqlTable(df) ==
    [cols  |-> df.cols,
     types |-> [c \in Range(df.cols) |-> SqlType(df.dtype[c])],
     rows  |-> SqlRows(df)]

\* INSERT into the existing table: a table column the frame lacks is NULL.
SqlAppend(table, df) ==
    [table EXCEPT !.rows = @ \o [i \in 1..NRows(df) |->
        [c \in Range(table.cols) |->
            IF HasCol(df, c) THEN SqlRows(df)[i][c] ELSE NULL]]]

\* DataFrame.empty: no rows or no columns.
DfEmpty(df) == NRows(df) = 0 \/ df.cols = <<>>

StoreCall(fn, args, err, out) ==
    [fn |-> fn, args |-> args, err |-> err, out |-> out,
     after |-> [fn |-> fcall.fn, args |-> fcall.args, err |-> fcall.err]]

load_to_database(table_name, if_exists) ==
    /\ LET args == [table_name |-> table_name, if_exists |-> if_exists]
       IN  IF DfEmpty(fin) \/ table_name = ""
           THEN /\ fcall' = StoreCall("load_to_database", args, "ValueError", NULL)
                /\ UNCHANGED db
           ELSE IF db = <<>> \/ if_exists = "replace"
           THEN /\ db' = <<SqlTable(fin)>>
                /\ fcall' = StoreCall("load_to_database", args, "ok", NULL)
           ELSE IF if_exists = "fail"
           THEN /\ fcall' = StoreCall("load_to_database", args, "ValueError", NULL)
                /\ UNCHANGED db
           ELSE IF ~(Range(fin.cols) \subseteq Range(db[1].cols))
           THEN /\ fcall' = StoreCall("load_to_database", args, "OperationalError", NULL)
                /\ UNCHANGED db
           ELSE /\ Len(db[1].rows) + NRows(fin) <= MaxStoreRows
                /\ db' = <<SqlAppend(db[1], fin)>>
                /\ fcall' = StoreCall("load_to_database", args, "ok", NULL)
    /\ UNCHANGED <<fin, call>>
    /\ UNCHANGED <<analyzerVars, cleanerVars, loggerVars>>

\* pd.read_sql_table: the dtype of a column follows its declared type, and
\* a DATETIME cell is parsed back into a timestamp.
ReadDtype(type) ==
    IF type = "FLOAT" THEN "numeric" ELSE IF type = "DATETIME" THEN "datetime" ELSE "object"
ReadCell(cell, type) ==
    IF IsNull(cell) THEN NULL
    ELSE IF type = "DATETIME" THEN <<ParseDate(Val(cell))>>
    ELSE cell
ReadSqlTable(table) ==
    Frame(table.cols,
          [c \in Range(table.cols) |-> ReadDtype(table.types[c])],
          [i \in 1..Len(table.rows) |->
              [c \in Range(table.cols) |-> ReadCell(table.rows[i][c], table.types[c])]])

\* query=None: the whole table.
read_from_database(table_name) ==
    /\ LET args == [table_name |-> table_name]
       IN  IF db = <<>> \/ table_name # TableName
           THEN fcall' = StoreCall("read_from_database", args, "ValueError", NULL)
           ELSE fcall' = StoreCall("read_from_database", args, "ok", <<ReadSqlTable(db[1])>>)
    /\ UNCHANGED <<db, fin, call>>
    /\ UNCHANGED <<analyzerVars, cleanerVars, loggerVars>>

\* The datasets loaded: new frames, with the dates as strings or parsed,
\* and frames that lost their first row to a filter.
LoadStringFrames == {Frame(PureCols, PureDtype, rows) : rows \in SeqsUpTo(PureRows, MaxLoadRows)}
LoadDatetimeFrames ==
    {ToDatetime(df, "date") : df \in {f \in LoadStringFrames : ~ToDatetimeRaises(f, "date")}}
LoadFilteredFrames ==
    {BoolIndex(df, [i \in 1..NRows(df) |-> i # 1]) : df \in LoadDatetimeFrames}

\* What the table held before: another schema, or rows of the same columns.
OtherFrame ==
    Frame(<<"id", "cases">>, [id |-> "numeric", cases |-> "numeric"],
          <<[id |-> <<Num(1)>>, cases |-> <<Num(100)>>]>>)
EarlierFrame ==
    Frame(PureCols, PureDtype,
          <<[country |-> <<"USA">>, cases |-> <<Num(200)>>, date |-> <<"2020-01-02">>]>>)

StoreInit ==
    /\ db \in {<<>>, <<SqlTable(OtherFrame)>>, <<SqlTable(EarlierFrame)>>}
    /\ call = NoCall
    /\ \/ fin \in LoadStringFrames
       \/ fin \in LoadDatetimeFrames
       \/ fin \in LoadFilteredFrames
    /\ fcall = NoPureCall

NextStore ==
    \/ \E table_name \in {TableName, ""}, if_exists \in {"replace", "append", "fail"} :
          load_to_database(table_name, if_exists)
    \/ \E table_name \in {TableName, ""} : read_from_database(table_name)

(***************************************************************************)
(* Loading from an API                                                     *)
(*                                                                         *)
(* A JSON value is a record: kind "scalar" with its literal, kind "list"   *)
(* with its elements in vals, kind "dict" with its keys and values in      *)
(* insertion order.  fin is the response of the endpoint: whether the      *)
(* request succeeded and the body it carried.  fcall is the call made.     *)
(***************************************************************************)
MaxItems == 2
MaxKeys == 2

JsonScalar(lit) == [kind |-> "scalar", lit |-> lit, keys |-> <<>>, vals |-> <<>>]
JsonList(vals) == [kind |-> "list", lit |-> "", keys |-> <<>>, vals |-> vals]
JsonDict(keys, vals) == [kind |-> "dict", lit |-> "", keys |-> keys, vals |-> vals]

JsonRecords ==
    { JsonDict(<<"country">>, <<JsonScalar("USA")>>),
      JsonDict(<<"country", "cases">>, <<JsonScalar("UK"), JsonScalar("500")>>) }

JsonValues ==
    {JsonScalar("success")}
        \cup {JsonDict(<<"country">>, <<JsonScalar("USA")>>)}
        \cup {JsonList(v) : v \in SeqsUpTo(JsonRecords, MaxItems)}

JsonKeys == {"status", "data", "results"}

KeySeqs == {k \in SeqsUpTo(JsonKeys, MaxKeys) : \A i, j \in 1..Len(k) : k[i] = k[j] => i = j}

JsonBodies ==
    JsonValues
        \cup UNION {{JsonDict(k, v) : v \in [1..Len(k) -> JsonValues]} : k \in KeySeqs}

\* dict.get(key, default)
DictGet(data, key, default) ==
    IF \E i \in 1..Len(data.keys) : data.keys[i] = key
    THEN data.vals[CHOOSE i \in 1..Len(data.keys) : data.keys[i] = key]
    ELSE default

\* the for loop over data.values(): the first value that is a list
ListValues(data) == {i \in 1..Len(data.vals) : data.vals[i].kind = "list"}

FirstListLast(data) ==
    data.vals[CHOOSE i \in ListValues(data) : \A j \in ListValues(data) : j <= i]

FirstList(data) ==
    data.vals[CHOOSE i \in ListValues(data) : \A j \in ListValues(data) : i <= j]

ErrRequest == "RequestException: API request failed"
ErrResponse == "ValueError: Error processing API response"

load_from_api(response, data_key) ==
    IF ~response.ok THEN [err |-> ErrRequest, out |-> NULL]
    ELSE IF data_key # NULL /\ Val(data_key) # "" /\ response.body.kind # "dict"
    THEN [err |-> ErrResponse, out |-> NULL]
    ELSE LET body == response.body
             data == IF data_key # NULL /\ Val(data_key) # ""
                     THEN DictGet(body, Val(data_key), body)
                     ELSE body
         IN  IF data.kind = "list"
             THEN [err |-> "ok", out |-> <<[rows |-> data.vals]>>]
             ELSE IF data.kind = "dict"
             THEN IF ListValues(data) # {}
                  THEN [err |-> "ok", out |-> <<[rows |-> FirstList(data).vals]>>]
                  ELSE [err |-> "ok", out |-> <<[rows |-> <<data>>]>>]
             ELSE [err |-> ErrResponse, out |-> NULL]

call_load_from_api(data_key) ==
    /\ fcall.fn = "none"
    /\ fcall' = [fn |-> "load_from_api", args |-> [data_key |-> data_key],
                 err |-> load_from_api(fin, data_key).err,
                 out |-> load_from_api(fin, data_key).out, again |-> NULL]
    /\ UNCHANGED fin
    /\ UNCHANGED <<crudVars, analyzerVars, cleanerVars, loggerVars>>

ApiInit ==
    /\ \/ \E body \in JsonBodies : fin = [ok |-> TRUE, body |-> body]
       \/ fin = [ok |-> FALSE, body |-> JsonScalar("")]
    /\ fcall = NoPureCall

NextApi ==
    \E data_key \in {NULL, <<"">>, <<"data">>, <<"results">>} : call_load_from_api(data_key)

(***************************************************************************)
(* standardize_text called on its own                                      *)
(*                                                                         *)
(* fin is a dataset whose country column holds text; fcall is the call.    *)
(***************************************************************************)
MaxTextLen == 3
MaxTextRows == 1

TextChars == {" ", "U", "!"}
Texts == SeqsUpTo(TextChars, MaxTextLen)
TextRows ==
    {[country |-> <<t>>, cases |-> <<Num(100)>>, date |-> <<"2020-01-01">>] : t \in Texts}
        \cup {[country |-> NULL, cases |-> <<Num(100)>>, date |-> <<"2020-01-01">>]}
TextFrames ==
    {Frame(CleanerCols, CleanerDtype, rows) : rows \in SeqsUpTo(TextRows, MaxTextRows)}

call_standardize_text(column, lowercase, strip, remove_special) ==
    /\ fcall.fn = "none"
    /\ LET args == [column |-> column, lowercase |-> lowercase, strip |-> strip,
                    remove_special |-> remove_special]
       IN  fcall' =
             IF standardize_text_raises(fin, column, lowercase, strip, remove_special)
             THEN [fn |-> "standardize_text", args |-> args,
                   err |-> IF HasCol(fin, column) THEN "AttributeError" ELSE "KeyError",
                   out |-> NULL, again |-> NULL]
             ELSE [fn |-> "standardize_text", args |-> args, err |-> "ok",
                   out |-> <<standardize_text(fin, column, lowercase, strip, remove_special)>>,
                   again |-> NULL]
    /\ UNCHANGED fin
    /\ UNCHANGED <<crudVars, analyzerVars, cleanerVars, loggerVars>>

TextInit ==
    /\ fin \in TextFrames
    /\ fcall = NoPureCall

NextText ==
    \E column \in {"country", "cases", NoCol}, lowercase \in BOOLEAN, strip \in BOOLEAN,
       remove_special \in BOOLEAN :
          call_standardize_text(column, lowercase, strip, remove_special)

(***************************************************************************)
(* The activity log                                                        *)
(*                                                                         *)
(* log_file is <<>> while the file does not exist, else <<lines>>.  An     *)
(* activity in memory is a function from keys to values; a line of the     *)
(* file holds the sequence of its <<key, value>> items in insertion        *)
(* order.  An instance is in its with-block between __enter__ and          *)
(* __exit__.  calls lists the calls made so far as the caller made them,   *)
(* and the clock reads one more than the number of them.                   *)
(***************************************************************************)
MaxCalls == 4
MaxLoggers == 2

LoggerIdle ==
    /\ log_file = <<>>
    /\ loggers = <<>>
    /\ calls = <<>>
    /\ lcall = <<>>

CallsRoom == Len(calls) < MaxCalls

\* datetime.now().isoformat()
Now == ToString(Len(calls) + 1)

FileExists == log_file # <<>>

\* self.log_file.touch()
Touch == IF FileExists THEN log_file ELSE <<<<>>>>

\* __init__
ActivityLogger(user, auto_log_session) ==
    [user |-> IF user = NULL THEN "unknown" ELSE Val(user),
     auto_log_session |-> auto_log_session,
     entered |-> FALSE]

\* The keys of an activity, in the order log() inserts them.
ActivityKeys == <<"timestamp", "user", "action", "description", "level", "metadata">>

\* json.dumps(activity) + '\n': the items of the dict, in insertion order.
JsonDumps(activity) ==
    LET keys == SelectByMask(ActivityKeys,
                             [k \in 1..Len(ActivityKeys) |-> ActivityKeys[k] \in DOMAIN activity])
    IN  [k \in 1..Len(keys) |-> <<keys[k], activity[keys[k]]>>]

\* json.loads(line): the dict of the items.
JsonKeysOf(line) == {line[i][1] : i \in 1..Len(line)}
JsonLoads(line) ==
    [k \in JsonKeysOf(line) |-> line[CHOOSE i \in 1..Len(line) : line[i][1] = k][2]]

\* The dict built by log(); metadata is None (<<>>) or <<items>>, and is
\* left out when it is None or empty.
Activity(self, action, description, level, metadata) ==
    IF metadata # NULL /\ Val(metadata) # <<>>
    THEN [timestamp |-> Now, user |-> self.user, action |-> action,
          description |-> description, level |-> level, metadata |-> Val(metadata)]
    ELSE [timestamp |-> Now, user |-> self.user, action |-> action,
          description |-> description, level |-> level]

AppendLineFirst(file, line) == <<<<line>> \o Val(file)>>

\* with open(self.log_file, 'a') as f: f.write(json.dumps(activity) + '\n')
AppendLine(file, line) == <<Append(Val(file), line)>>

Written(self, action, description, level, metadata) ==
    AppendLine(Touch, JsonDumps(Activity(self, action, description, level, metadata)))

SessionEndLevelInfo(exc_type) == "INFO"

\* level='ERROR' when the block raised
SessionEndLevel(exc_type) == IF exc_type # NULL THEN "ERROR" ELSE "INFO"

LCall(op, err, ret) == [op |-> op, err |-> err, ret |-> ret]

ActivityLogger_init(user, auto_log_session) ==
    /\ Len(loggers) < MaxLoggers
    /\ loggers' = Append(loggers, ActivityLogger(user, auto_log_session))
    /\ log_file' = Touch
    /\ lcall' = LCall("__init__", "ok", NULL)
    /\ UNCHANGED calls
    /\ UNCHANGED <<crudVars, analyzerVars, cleanerVars, pureVars>>

ActivityLogger_log(l, action, description, level, metadata) ==
    /\ CallsRoom
    /\ l \in 1..Len(loggers)
    /\ log_file' = Written(loggers[l], action, description, level, metadata)
    /\ calls' = Append(calls, [op |-> "log", logger |-> l, now |-> Now, action |-> action,
                               description |-> description, level |-> level,
                               metadata |-> metadata])
    /\ lcall' = LCall("log", "ok", NULL)
    /\ UNCHANGED loggers
    /\ UNCHANGED <<crudVars, analyzerVars, cleanerVars, pureVars>>

\* if log_file.exists(): open(log_file, 'w')
clear_activity_log ==
    /\ CallsRoom
    /\ log_file' = IF FileExists THEN <<<<>>>> ELSE log_file
    /\ calls' = Append(calls, [op |-> "clear"])
    /\ lcall' = LCall("clear_activity_log", "ok", NULL)
    /\ UNCHANGED loggers
    /\ UNCHANGED <<crudVars, analyzerVars, cleanerVars, pureVars>>

read_activity_log ==
    /\ lcall' = LCall("read_activity_log", "ok",
                      IF FileExists
                      THEN [i \in 1..Len(Val(log_file)) |-> JsonLoads(Val(log_file)[i])]
                      ELSE <<>>)
    /\ UNCHANGED <<log_file, loggers, calls>>
    /\ UNCHANGED <<crudVars, analyzerVars, cleanerVars, pureVars>>

\* if self.auto_log_session: self.log('session_start', ...); return self
ActivityLogger_enter(l) ==
    /\ CallsRoom
    /\ l \in 1..Len(loggers)
    /\ ~loggers[l].entered
    /\ loggers' = [loggers EXCEPT ![l].entered = TRUE]
    /\ log_file' = IF loggers[l].auto_log_session
                   THEN Written(loggers[l], "session_start", "User session started",
                                "INFO", NULL)
                   ELSE log_file
    /\ calls' = Append(calls, [op |-> "enter", logger |-> l, now |-> Now])
    /\ lcall' = LCall("__enter__", "ok", NULL)
    /\ UNCHANGED <<crudVars, analyzerVars, cleanerVars, pureVars>>

\* exc_type is None (<<>>) when the block ended normally, else the
\* exception it raised; __exit__ returns False, so the exception goes on
\* to the caller of the with statement.
ActivityLogger_exit(l, exc_type) ==
    /\ CallsRoom
    /\ l \in 1..Len(loggers)
    /\ loggers[l].entered
    /\ loggers' = [loggers EXCEPT ![l].entered = FALSE]
    /\ log_file' = IF ~loggers[l].auto_log_session THEN log_file
                   ELSE Written(loggers[l], "session_end",
                                IF exc_type # NULL
                                THEN "Session ended with error: " \o Val(exc_type)
                                ELSE "User session ended",
                                SessionEndLevel(exc_type), NULL)
    /\ calls' = Append(calls, [op |-> "exit", logger |-> l, now |-> Now,
                               exc_type |-> exc_type])
    /\ lcall' = LCall("__exit__", IF exc_type # NULL THEN Val(exc_type) ELSE "ok", NULL)
    /\ UNCHANGED <<crudVars, analyzerVars, cleanerVars, pureVars>>

Metadatas == {NULL, <<<<>>>>, << << <<"file", "data.csv">> >> >>}

LogInit ==
    /\ log_file = <<>>
    /\ loggers = <<>>
    /\ calls = <<>>
    /\ lcall = LCall("none", "ok", NULL)

NextLog ==
    \/ \E user \in {NULL, <<"analyst1">>} : ActivityLogger_init(user, FALSE)
    \/ \E l \in 1..MaxLoggers, metadata \in Metadatas :
          ActivityLogger_log(l, "data_loaded", "Loaded CSV file", "INFO", metadata)
    \/ clear_activity_log
    \/ read_activity_log

SessionInit ==
    /\ \E auto_log_session \in BOOLEAN :
          loggers = <<ActivityLogger(<<"analyst1">>, auto_log_session)>>
    /\ log_file = <<<<>>>>
    /\ calls = <<>>
    /\ lcall = LCall("__init__", "ok", NULL)

NextSession ==
    \/ ActivityLogger_log(1, "analysis", "Calculated summary statistics", "INFO", NULL)
    \/ ActivityLogger_enter(1)
    \/ \E exc_type \in {NULL, <<"ValueError">>} : ActivityLogger_exit(1, exc_type)
    \/ read_activity_log

InitCrud == CrudInit /\ AnalyzerIdle /\ CleanerIdle /\ PureIdle /\ LoggerIdle
SpecCrud == InitCrud /\ [][NextCrud]_vars

InitAnalyzer == AnalyzerInit /\ CrudIdle /\ CleanerIdle /\ PureIdle /\ LoggerIdle
SpecAnalyzer == InitAnalyzer /\ [][NextAnalyzer]_vars

InitCleaner == CleanerInit /\ CrudIdle /\ AnalyzerIdle /\ PureIdle /\ LoggerIdle
SpecCleaner == InitCleaner /\ [][NextCleaner]_vars

InitPure == PureInit /\ CrudIdle /\ AnalyzerIdle /\ CleanerIdle /\ LoggerIdle
SpecPure == InitPure /\ [][NextPure]_vars

InitStore == StoreInit /\ AnalyzerIdle /\ CleanerIdle /\ LoggerIdle
SpecStore == InitStore /\ [][NextStore]_vars

InitApi == ApiInit /\ CrudIdle /\ AnalyzerIdle /\ CleanerIdle /\ LoggerIdle
SpecApi == InitApi /\ [][NextApi]_vars

InitText == TextInit /\ CrudIdle /\ AnalyzerIdle /\ CleanerIdle /\ LoggerIdle
SpecText == InitText /\ [][NextText]_vars

InitLog == LogInit /\ CrudIdle /\ AnalyzerIdle /\ CleanerIdle /\ PureIdle
SpecLog == InitLog /\ [][NextLog]_vars

InitSession == SessionInit /\ CrudIdle /\ AnalyzerIdle /\ CleanerIdle /\ PureIdle
SpecSession == InitSession /\ [][NextSession]_vars

InitWrappers == WrappersInit /\ CrudIdle /\ fcall = <<>> /\ LoggerIdle
SpecWrappers == InitWrappers /\ [][NextWrappers]_vars

(***************************************************************************)
(* Properties of the CRUD layer (specification SpecCrud)                   *)
(***************************************************************************)
TableColsBefore == Range(call.before[1].cols)

\* C1: update_record and delete_record called without a where clause fail
\* with ValueError "WHERE clause is required", whether or not the table
\* exists, and the store is the same after the call as before it.
C1_WhereRequired ==
    (call.op \in {"update_record", "delete_record"} /\ call.where = WhereNone)
        => (call.err = ErrWhere /\ db = call.before)

\* A delete without where on a table that holds rows, rejected.
C1_Witness ==
    /\ call.op = "delete_record"
    /\ call.where = WhereNone
    /\ call.err = ErrWhere
    /\ db # <<>>
    /\ Len(db[1].rows) > 0

C4_BatchValidated ==
    (/\ call.op = "create_records"
     /\ call.before # <<>>
     /\ \E i \in 1..Len(call.records) : TableColsBefore \ DOMAIN call.records[i] # {})
        => (call.err = ErrMissingCols /\ db = call.before)

\* The rows of the table before the last call, and those of them the
\* where clause of the call selects.
RowsBefore == call.before[1].rows
Selected ==
    {i \in 1..Len(RowsBefore) :
        /\ RowsBefore[i][call.where.col] # NULL
        /\ IF call.where.op = "=" THEN RowsBefore[i][call.where.col] = <<call.where.val>>
           ELSE Val(RowsBefore[i][call.where.col]) > call.where.val}
KthUnselected(k) ==
    CHOOSE i \in (1..Len(RowsBefore)) \ Selected :
        Cardinality({j \in (1..Len(RowsBefore)) \ Selected : j < i}) = k - 1

\* C14: update_record (with updates naming columns of the table) and
\* delete_record, called with a where clause on an existing table, return
\* the number of rows the clause selects.  After update_record the
\* selected rows hold the new values in the columns named in updates and
\* their old values elsewhere, and the other rows are as they were; after
\* delete_record the table holds the other rows, as they were and in
\* their order.
C14_ExactRows ==
    (/\ call.op \in {"update_record", "delete_record"}
     /\ call.where.kind = "pred"
     /\ call.before # <<>>
     /\ call.op = "update_record"
        => (DOMAIN call.records[1] # {} /\ DOMAIN call.records[1] \subseteq TableColsBefore))
        => /\ call.err = ErrOk
           /\ call.ret = Cardinality(Selected)
           /\ db[1].cols = call.before[1].cols
           /\ IF call.op = "update_record"
              THEN /\ Len(db[1].rows) = Len(RowsBefore)
                   /\ \A i \in 1..Len(RowsBefore) : \A c \in TableColsBefore :
                         db[1].rows[i][c] =
                             IF i \in Selected /\ c \in DOMAIN call.records[1]
                             THEN <<call.records[1][c]>>
                             ELSE RowsBefore[i][c]
              ELSE /\ Len(db[1].rows) = Len(RowsBefore) - Cardinality(Selected)
                   /\ \A k \in 1..Len(db[1].rows) : db[1].rows[k] = RowsBefore[KthUnselected(k)]

\* An update that changed one of two rows.
C14_Witness ==
    /\ call.op = "update_record"
    /\ call.err = ErrOk
    /\ call.ret = 1
    /\ Len(RowsBefore) = 2
    /\ db[1].rows[1] = RowsBefore[1]
    /\ db[1].rows[2] # RowsBefore[2]

\* The rows a successful write w leaves in the table, from the table before
\* it and its arguments.
RowOf(w, rec) ==
    [c \in Range(w.before[1].cols) |-> IF c \in DOMAIN rec THEN <<rec[c]>> ELSE NULL]
Chosen(w, row) ==
    /\ row[w.where.col] # NULL
    /\ IF w.where.op = "=" THEN row[w.where.col] = <<w.where.val>>
       ELSE Val(row[w.where.col]) > w.where.val
RECURSIVE Without(_, _)
Without(w, rows) ==
    IF rows = <<>> THEN <<>>
    ELSE (IF Chosen(w, Head(rows)) THEN <<>> ELSE <<Head(rows)>>) \o Without(w, Tail(rows))
RowsAfter(w) ==
    IF w.op \in {"create_record", "create_records"}
    THEN w.before[1].rows \o [k \in 1..Len(w.records) |-> RowOf(w, w.records[k])]
    ELSE IF w.op = "update_record"
    THEN [i \in 1..Len(w.before[1].rows) |->
             IF Chosen(w, w.before[1].rows[i])
             THEN [c \in Range(w.before[1].cols) |->
                      IF c \in DOMAIN w.records[1] THEN <<w.records[1][c]>>
                      ELSE w.before[1].rows[i][c]]
             ELSE w.before[1].rows[i]]
    ELSE Without(w, w.before[1].rows)
WithId(rows, id_value) == SelectSeq(rows, LAMBDA row : row["id"] = <<id_value>>)

\* C15: after a successful create_record, create_records, update_record or
\* delete_record, every read of the table, through read_records /
\* read_record_by_id or through CRUDManager.read / read_by_id, succeeds and
\* returns the rows the write left: a read of the whole table returns all
\* of them, a read by id the first of them with that id (None when there is
\* none), and get_table_info counts them.
C15_ReadsSeeWrites ==
    (/\ call.op \in {"read_records", "read_record_by_id", "get_table_info"}
     /\ call.prev.op \in {"create_record", "create_records", "update_record",
                          "delete_record"}
     /\ call.prev.err = ErrOk)
        => /\ call.err = ErrOk
           /\ (call.op = "read_records" /\ call.where.kind # "pred"
                  /\ call.records[1].limit = NULL)
                 => call.out = RowsAfter(call.prev)
           /\ call.op = "read_record_by_id"
                 => call.out = (IF WithId(RowsAfter(call.prev), call.where.val) = <<>>
                                THEN NULL
                                ELSE <<WithId(RowsAfter(call.prev), call.where.val)[1]>>)
           /\ call.op = "get_table_info"
                 => call.out.row_count = Len(RowsAfter(call.prev))

\* A CRUDManager reads the whole table after an update that changed a row.
C15_Witness ==
    /\ call.op = "read_records"
    /\ call.via = "CRUDManager"
    /\ call.err = ErrOk
    /\ call.where.kind = "none"
    /\ call.records[1].limit = NULL
    /\ call.prev.op = "update_record"
    /\ call.prev.err = ErrOk
    /\ call.out # call.prev.before[1].rows

\* C16: on a store without the table, create_record, create_records,
\* read_records, read_record_by_id, get_table_info, and update_record and
\* delete_record given a where clause, raise ValueError "Table does not
\* exist"; table_exists returns False without raising; and the store is
\* still without the table after the call.
C16_AbsentTable ==
    (call.op # "none" /\ call.before = <<>>)
        => /\ db = <<>>
           /\ IF call.op = "table_exists"
              THEN call.err = ErrOk /\ call.out = FALSE
              ELSE (call.op \in {"update_record", "delete_record"} => call.where # WhereNone)
                      => call.err = ErrNoTable

\* An update with a where clause was refused on a store without the table.
C16_Witness ==
    /\ call.op = "update_record"
    /\ call.where.kind = "pred"
    /\ call.before = <<>>
    /\ call.err = ErrNoTable
    /\ db = <<>>

\* C21: a read_records call given limit = n, an integer n >= 0, returns at
\* most n records.
C21_LimitBounds ==
    (call.op = "read_records" /\ call.err = ErrOk /\ call.records[1].limit # NULL)
        => Len(call.out) <= Val(call.records[1].limit)

\* C30: update_record and delete_record called with the empty string as
\* where clause fail with ValueError "WHERE clause is required", as they do
\* without a where clause, whether or not the table exists, and the store
\* is the same after the call as before it.
C30_EmptyWhereRejected ==
    (call.op \in {"update_record", "delete_record"} /\ call.where = WhereEmpty)
        => (call.err = ErrWhere /\ db = call.before)

(***************************************************************************)
(* Properties of DataAnalyzer (specification SpecAnalyzer)                 *)
(***************************************************************************)
\* C2: aggregate() on an instance on which no group_by() is pending fails
\* with an InvalidState error.
C2_AggregateNeedsGroupBy ==
    (acall.op = "aggregate" /\ ~acall.grouped) => acall.err = "InvalidState"

\* C5: after reset() the current frame equals the frame given at
\* construction and the operations log is empty.
C5_ResetRestores ==
    acall.op = "reset"
        => (analyzer.df = analyzer.original_df /\ analyzer.operations = <<>>)

\* A reset of an instance that had logged operations and lost rows.
C5_Witness ==
    /\ acall.op = "reset"
    /\ acall.nops = MaxOps
    /\ acall.nrows < NRows(analyzer.original_df)
    /\ analyzer.df = analyzer.original_df

\* What the operations of an instance read and write: the current
\* dataset, the history and the pending grouping.
Observed(a) == [df |-> a.df, operations |-> a.operations, group_by |-> a.group_by]

\* C27: after reset() the instance is in the state of a DataAnalyzer newly
\* constructed over the original dataset, so that operations issued after
\* it give what they give on a new instance: a group_by() issued before
\* reset() is forgotten.
C27_ResetIsFresh ==
    acall.op = "reset" => Observed(analyzer) = Observed(DataAnalyzer(analyzer.original_df))

(***************************************************************************)
(* Properties of DataCleaner (specification SpecCleaner)                   *)
(***************************************************************************)
\* A held report as the caller reads it: the operations list looked up.
ReportRead(k) == [reports[k] EXCEPT !.operations = heap[@]]

\* C6: the report get_cleaning_report() has just returned gives the row
\* and column counts of the dataset at construction, those of the current
\* dataset, rows_removed as their difference in rows, and as operations
\* the descriptions of the chainable calls that returned, in call order.
C6_ReportFields ==
    ccall.op = "get_cleaning_report"
        => LET report == ReportRead(Len(reports))
           IN  /\ report.original_rows = NRows(cleaner.original_df)
               /\ report.original_columns = Len(cleaner.original_df.cols)
               /\ report.cleaned_rows = NRows(cleaner.df)
               /\ report.cleaned_columns = Len(cleaner.df.cols)
               /\ report.rows_removed = report.original_rows - report.cleaned_rows
               /\ report.operations = ccall.applied

\* A report taken after MaxCleanerOps calls that returned, of which one
\* removed rows.
C6_Witness ==
    /\ ccall.op = "get_cleaning_report"
    /\ Len(ccall.applied) = MaxCleanerOps
    /\ ReportRead(Len(reports)).rows_removed > 0
    /\ ReportRead(Len(reports)).operations[1].op # ReportRead(Len(reports)).operations[2].op

\* C7: a report the caller holds reads the same after every later call on
\* the DataCleaner as before it, its operations list included.
C7_ReportImmutable ==
    [][\A k \in 1..Len(reports) : ReportRead(k)' = ReportRead(k)]_vars

\* C29: after any sequence of chainable operations the current dataset
\* has no more rows than the dataset given at construction and the same
\* columns; every report has rows_removed >= 0 and cleaned_columns equal
\* to original_columns.
C29_NeverGrows ==
    /\ NRows(cleaner.df) <= NRows(cleaner.original_df)
    /\ cleaner.df.cols = cleaner.original_df.cols
    /\ \A k \in 1..Len(reports) :
          /\ reports[k].rows_removed >= 0
          /\ reports[k].cleaned_columns = reports[k].original_columns

\* A report taken after a type conversion and an operation that removed
\* rows.
C29_Witness ==
    /\ Len(reports) > 0
    /\ reports[1].rows_removed > 0
    /\ NRows(cleaner.df) < NRows(cleaner.original_df)
    /\ \E k \in 1..Len(heap[cleaner.operations]) :
          heap[cleaner.operations][k].op = "convert_column_type"

(***************************************************************************)
(* Properties of the filters and of remove_duplicates (specification       *)
(* SpecPure)                                                               *)
(***************************************************************************)
FilterFns == {"filter_by_column", "filter_by_date_range", "filter_by_multiple_conditions"}

Result == Val(fcall.out)

\* The test one condition puts on a row: membership for a list, equality
\* for a scalar (a missing value is equal to nothing).
Satisfies(row, column, value) ==
    IF value.kind = "list" THEN row[column] \in Range(value.v)
    ELSE row[column] # NULL /\ value.v # NULL /\ row[column] = value.v

\* The predicate of the last filter call, on a row of its result.
FilterPredicate(row) ==
    IF fcall.fn = "filter_by_column" THEN Satisfies(row, fcall.args.column, fcall.args.value)
    ELSE IF fcall.fn = "filter_by_date_range"
    THEN /\ fcall.args.start_date # NULL
            => (row[fcall.args.date_column] # NULL
                /\ Val(row[fcall.args.date_column]) >= Val(fcall.args.start_date))
         /\ fcall.args.end_date # NULL
            => (row[fcall.args.date_column] # NULL
                /\ Val(row[fcall.args.date_column]) <= Val(fcall.args.end_date))
    ELSE \A k \in 1..Len(fcall.args.conditions) :
            Satisfies(row, fcall.args.conditions[k].col, fcall.args.conditions[k].value)

\* C8: the result of a filter call that returned has at most as many rows
\* as the input, and each of its rows satisfies the predicate of the call
\* (for several conditions, every one of them).
C8_FilterSound ==
    (fcall.fn \in FilterFns /\ fcall.err = "ok")
        => /\ NRows(Result) <= NRows(fin)
           /\ \A i \in 1..NRows(Result) : FilterPredicate(Result.rows[i])

\* A filter on two conditions that kept some rows of the input and dropped
\* others.
C8_Witness ==
    /\ fcall.fn = "filter_by_multiple_conditions"
    /\ fcall.err = "ok"
    /\ Len(fcall.args.conditions) = 2
    /\ 0 < NRows(Result)
    /\ NRows(Result) < NRows(fin)

\* The positions of the input rows the last filter_by_column call asks for,
\* and the k-th of them from the top.
Asked == {i \in 1..NRows(fin) : Satisfies(fin.rows[i], fcall.args.column, fcall.args.value)}
KthAsked(k) == CHOOSE i \in Asked : Cardinality({j \in Asked : j < i}) = k - 1

\* C9: filter_by_column returns exactly the input rows whose cell is a
\* member of the list, or equal to the scalar, in their input order and
\* under their input index labels; nothing else of the dataset changes.
C9_FilterExact ==
    (fcall.fn = "filter_by_column" /\ fcall.err = "ok")
        => /\ NRows(Result) = Cardinality(Asked)
           /\ \A k \in 1..NRows(Result) :
                 /\ Result.rows[k] = fin.rows[KthAsked(k)]
                 /\ Result.index[k] = fin.index[KthAsked(k)]
           /\ Len(Result.index) = NRows(Result)
           /\ Result.cols = fin.cols
           /\ Result.dtype = fin.dtype

\* A list filter that kept two rows with a dropped row between them.
C9_Witness ==
    /\ fcall.fn = "filter_by_column"
    /\ fcall.err = "ok"
    /\ fcall.args.value.kind = "list"
    /\ NRows(Result) = 2
    /\ Result.index = <<[pos |-> 0], [pos |-> 2]>>
    /\ Result.rows[1] # Result.rows[2]

\* C10: remove_duplicates called on its own result with the same subset and
\* keep mode returns, and returns that same dataset.
C10_RemoveDuplicatesIdempotent ==
    (fcall.fn = "remove_duplicates" /\ fcall.err = "ok" /\ fcall.again # NULL)
        => Val(fcall.again) = Returned(Result)

\* A second call, keep=False on a column subset, after a first call that
\* removed some rows and kept others.
C10_Witness ==
    /\ fcall.fn = "remove_duplicates"
    /\ fcall.again # NULL
    /\ fcall.args.keep = "False"
    /\ fcall.args.subset # NULL
    /\ 0 < NRows(Result)
    /\ NRows(Result) < NRows(fin)

(***************************************************************************)
(* Properties of calculate_moving_average and group_and_aggregate          *)
(* (specification SpecPure)                                                *)
(***************************************************************************)
\* The cells of the averaged column of the input in rows lo..hi, and
\* whether a number is their arithmetic mean.
WindowCells(lo, hi) == [j \in 1..(hi - lo + 1) |-> fin.rows[lo + j - 1][fcall.args.column]]
RECURSIVE Total(_)
Total(cells) == IF cells = <<>> THEN Num(0) ELSE RatAdd(Val(Head(cells)), Total(Tail(cells)))
IsMeanOf(v, cells) == RatMul(v, Num(Len(cells))) = Total(cells)

MaCell(i) == Result.rows[i][MaColumn(fcall.args.column)]

\* The input columns and the rows of the result are those of the input.
InputKept ==
    /\ NRows(Result) = NRows(fin)
    /\ Result.index = fin.index
    /\ SubSeq(Result.cols, 1, Len(fin.cols)) = fin.cols
    /\ \A i \in 1..NRows(fin) : \A c \in Range(fin.cols) : Result.rows[i][c] = fin.rows[i][c]

GroupCols == fcall.args.group_by.cols
InputKey(i) == [c \in 1..Len(GroupCols) |-> fin.rows[i][GroupCols[c]]]
Keyed == {i \in 1..NRows(fin) : \A c \in 1..Len(GroupCols) : InputKey(i)[c] # NULL}
ResultKey(k) ==
    IF fcall.args.group_by.kind = "str" THEN <<<<Result.index[k].key>>>>
    ELSE [c \in 1..Len(GroupCols) |-> Result.rows[k][GroupCols[c]]]

\* The sum of the non-missing agg_column cells of the input rows in I.
RECURSIVE SumOfRows(_)
SumOfRows(I) ==
    IF I = {} THEN Num(0)
    ELSE LET i == CHOOSE j \in I : TRUE
             cell == fin.rows[i][fcall.args.agg_column]
         IN  RatAdd(IF cell = NULL THEN Num(0) ELSE Val(cell), SumOfRows(I \ {i}))

\* C12: the result of group_and_aggregate has one row for each distinct
\* combination of group-key values that occurs in the input (a row with a
\* missing key cell is in no group), and with agg_func = 'sum' the value
\* of a row is the sum of agg_column over exactly the input rows that
\* have its key.
C12_GroupSum ==
    (fcall.fn = "group_and_aggregate" /\ fcall.err = "ok")
        => /\ {ResultKey(k) : k \in 1..NRows(Result)} = {InputKey(i) : i \in Keyed}
           /\ NRows(Result) = Cardinality({InputKey(i) : i \in Keyed})
           /\ fcall.args.agg_func = "sum"
              => \A k \in 1..NRows(Result) :
                    Result.rows[k][fcall.args.agg_column]
                        = <<SumOfRows({i \in Keyed : InputKey(i) = ResultKey(k)})>>

\* UK: 100, USA: 200, UK: 100 summed by country gives UK 200 and USA 200.
C12_Witness ==
    /\ fcall.fn = "group_and_aggregate"
    /\ fcall.err = "ok"
    /\ fcall.args.agg_func = "sum"
    /\ fcall.args.group_by = GroupStr("country")
    /\ NRows(fin) = 3
    /\ Result.index = <<[key |-> "UK"], [key |-> "USA"]>>
    /\ ColCells(Result, "cases") = <<<<Num(200)>>, <<Num(200)>>>>

C23_NameHasWindow ==
    (fcall.fn = "calculate_moving_average" /\ fcall.err = "ok")
        => /\ Len(Result.cols) = Len(fin.cols) + 1
           /\ Result.cols[Len(Result.cols)]
                 = fcall.args.column \o "_ma_" \o ToString(fcall.args.window)

\* C17: handle_missing_values called with a strategy that is none of drop,
\* mean, median, mode, constant, ffill, bfill raises ValueError "Unknown
\* strategy" and returns nothing, whatever the columns and the dataset.
C17_UnknownStrategy ==
    (/\ fcall.fn = "handle_missing_values"
     /\ fcall.args.strategy \notin {"drop", "mean", "median", "mode", "constant", "ffill",
                                    "bfill"})
        => (fcall.err = "ValueError: Unknown strategy" /\ fcall.out = NULL)

\* The call named a strategy that does not exist, on a dataset with rows.
C17_Witness ==
    /\ fcall.fn = "handle_missing_values"
    /\ fcall.args.strategy = "bogus"
    /\ fcall.args.columns = NULL
    /\ NRows(fin) > 0
    /\ fcall.err = "ValueError: Unknown strategy"

\* The target columns of the last handle_missing_values call, the known
\* (non-missing) cells of a column of the input, and what it is for a
\* number to be their median: the middle one in order of value, or half the
\* sum of the two middle ones.
Targets ==
    IF fcall.args.columns = NULL THEN Range(fin.cols) ELSE Range(Val(fcall.args.columns))
Known(c) == SelectSeq(ColCells(fin, c), LAMBDA cell : cell # NULL)
IsKth(x, cells, k) ==
    /\ \E j \in 1..Len(cells) : Val(cells[j]) = x
    /\ Cardinality({j \in 1..Len(cells) : RatLt(Val(cells[j]), x)}) < k
    /\ Cardinality({j \in 1..Len(cells) : RatLeq(Val(cells[j]), x)}) >= k
IsMedianOf(v, cells) ==
    IF Len(cells) % 2 = 1 THEN IsKth(v, cells, (Len(cells) + 1) \div 2)
    ELSE \E i, j \in 1..Len(cells) :
            /\ IsKth(Val(cells[i]), cells, Len(cells) \div 2)
            /\ IsKth(Val(cells[j]), cells, Len(cells) \div 2 + 1)
            /\ RatMul(v, Num(2)) = RatAdd(Val(cells[i]), Val(cells[j]))

\* C19: handle_missing_values with strategy 'mean' (resp. 'median'), on
\* target columns the dataset has, returns the dataset with every missing
\* cell of a numeric target column replaced by the mean (resp. median) of
\* the known cells of that column (left missing when the column has no
\* known cell, since there is no mean); every other cell, the columns, the
\* rows and their order are those of the input.
C19_MeanMedianFill ==
    (/\ fcall.fn = "handle_missing_values"
     /\ fcall.args.strategy \in {"mean", "median"}
     /\ Targets \subseteq Range(fin.cols))
        => /\ fcall.err = "ok"
           /\ Result.cols = fin.cols
           /\ Result.dtype = fin.dtype
           /\ Result.index = fin.index
           /\ NRows(Result) = NRows(fin)
           /\ \A i \in 1..NRows(fin) : \A c \in Range(fin.cols) :
                 IF /\ c \in Targets
                    /\ fin.dtype[c] = "numeric"
                    /\ fin.rows[i][c] = NULL
                    /\ Known(c) # <<>>
                 THEN /\ Result.rows[i][c] # NULL
                      /\ IF fcall.args.strategy = "mean"
                         THEN IsMeanOf(Val(Result.rows[i][c]), Known(c))
                         ELSE IsMedianOf(Val(Result.rows[i][c]), Known(c))
                 ELSE Result.rows[i][c] = fin.rows[i][c]

\* The median filled the missing cell of cases = 100, 200, missing, 400 (in
\* some order) with 200, which is not the mean, and left the missing
\* country as it was.
C19_Witness ==
    /\ fcall.fn = "handle_missing_values"
    /\ fcall.args.strategy = "median"
    /\ fcall.args.columns = NULL
    /\ fcall.err = "ok"
    /\ \E i \in 1..NRows(fin) :
          /\ fin.rows[i]["cases"] = NULL
          /\ Result.rows[i]["cases"] = <<Num(200)>>
          /\ ~IsMeanOf(Num(200), Known("cases"))
          /\ Result.rows[i]["country"] = NULL

\* The columns the last detect_duplicates call compares, the rows of the
\* input that repeat an earlier row on them, and the k-th of those rows.
Compared ==
    IF fcall.args.subset = NULL THEN Range(fin.cols) ELSE Range(Val(fcall.args.subset))
Repeats ==
    {i \in 1..NRows(fin) :
        \E j \in 1..(i - 1) : \A c \in Compared : fin.rows[j][c] = fin.rows[i][c]}
KthRepeat(k) == CHOOSE i \in Repeats : Cardinality({j \in Repeats : j < i}) = k - 1

\* C20: detect_duplicates, on columns the dataset has (all columns when
\* subset is None), returns the rows of the input that have the values of
\* an earlier row in those columns, and no other row: with all their
\* cells and their index labels, in the order of the input.
C20_LaterOccurrences ==
    (fcall.fn = "detect_duplicates" /\ Compared \subseteq Range(fin.cols))
        => /\ fcall.err = "ok"
           /\ Result.cols = fin.cols
           /\ NRows(Result) = Cardinality(Repeats)
           /\ \A k \in 1..NRows(Result) :
                 /\ Result.rows[k] = fin.rows[KthRepeat(k)]
                 /\ Result.index[k] = fin.index[KthRepeat(k)]

\* Of three rows the third repeats the country of the first and is the
\* one row returned.
C20_Witness ==
    /\ fcall.fn = "detect_duplicates"
    /\ fcall.args.subset = <<<<"country">>>>
    /\ fcall.err = "ok"
    /\ NRows(fin) = 3
    /\ fin.rows[1]["country"] = fin.rows[3]["country"]
    /\ fin.rows[1]["country"] # fin.rows[2]["country"]
    /\ fin.rows[1] # fin.rows[3]
    /\ Result.rows = <<fin.rows[3]>>

(***************************************************************************)
(* Properties of a wrapper and its caller (specification SpecWrappers)     *)
(***************************************************************************)
\* The wrapper of the behaviour, the dataset its getter returned last (if
\* the caller still holds it), and a dataset without the column a caller's
\* modification adds.
Wrapper == IF HasCleaner THEN cleaner ELSE analyzer
LastReturned == IF HasCleaner THEN ccall.ret ELSE acall.ret
Unflagged(df) ==
    [df EXCEPT
        !.cols  = SelectSeq(@, LAMBDA c : c # FlagCol),
        !.dtype = [c \in DOMAIN @ \ {FlagCol} |-> @[c]],
        !.rows  = [i \in 1..NRows(df) |->
                      [c \in DOMAIN df.rows[i] \ {FlagCol} |-> df.rows[i][c]]]]

\* C18: whatever chainable operations a DataCleaner or DataAnalyzer has
\* run, and whatever the caller has done to the datasets it holds: the
\* dataset passed to the constructor is as the caller left it and the
\* wrapper's original_df is that dataset as it was passed; the wrapper's
\* current dataset shows no modification made by the caller; and the
\* dataset returned by get_cleaned_data() / get_data() is another object
\* than the wrapper's, with the contents of the current dataset.
C18_NoSharedDatasets ==
    /\ Wrapper.original_df = Unflagged(fin)
    /\ ~HasCol(Wrapper.original_df, FlagCol)
    /\ ~HasCol(Wrapper.df, FlagCol)
    /\ LastReturned # NULL
          => /\ LastReturned[1].at \notin {InputAt, Wrapper.at.df, Wrapper.at.original_df}
             /\ Unflagged(LastReturned[1].df) = Wrapper.df

\* A DataCleaner that has changed its dataset, after its caller modified
\* both the dataset it was built on and the dataset get_cleaned_data()
\* returned.
C18_Witness ==
    /\ HasCleaner
    /\ ccall.op = "get_cleaned_data"
    /\ HasCol(fin, FlagCol)
    /\ HasCol(ccall.ret[1].df, FlagCol)
    /\ Len(ccall.applied) >= 1
    /\ cleaner.df # cleaner.original_df

(***************************************************************************)
(* Properties of load_from_api                                             *)
(***************************************************************************)
Loaded == fcall.fn = "load_from_api" /\ fin.ok

KeyGiven == fcall.args.data_key # NULL

BodyHasKey == fin.body.kind = "dict" /\ Val(fcall.args.data_key) \in Range(fin.body.keys)

IsPayload(v) ==
    IF KeyGiven
    THEN \E i \in 1..Len(fin.body.keys) :
            fin.body.keys[i] = Val(fcall.args.data_key) /\ fin.body.vals[i] = v
    ELSE v = fin.body

IsFirstList(d, l) ==
    \E i \in 1..Len(d.vals) :
        /\ d.vals[i] = l
        /\ l.kind = "list"
        /\ \A j \in 1..(i - 1) : d.vals[j].kind # "list"

NoList(d) == \A i \in 1..Len(d.vals) : d.vals[i].kind # "list"

OneRowPerElement(l) ==
    /\ fcall.err = "ok"
    /\ Len(Result.rows) = Len(l.vals)
    /\ \A i \in 1..Len(l.vals) : Result.rows[i] = l.vals[i]

\* C22: load_from_api takes the value under data_key when one is given,
\* else the body; a list gives one row per element, a mapping gives the
\* rows of the first list among its values or, having none, one row made
\* of the mapping itself, and anything else fails with ValueError.
C22_TabularPayload ==
    (Loaded /\ (KeyGiven => BodyHasKey))
        => \A v \in JsonValues \cup {fin.body} :
              IsPayload(v)
                  => /\ v.kind = "list" => OneRowPerElement(v)
                     /\ v.kind = "dict"
                           => /\ \A l \in JsonValues : IsFirstList(v, l) => OneRowPerElement(l)
                              /\ NoList(v) => (fcall.err = "ok" /\ Result.rows = <<v>>)
                     /\ v.kind = "scalar" => fcall.err = ErrResponse

C22_Witness ==
    /\ Loaded
    /\ fcall.args.data_key = <<"data">>
    /\ fin.body.keys = <<"results", "data">>
    /\ fin.body.vals[1].kind = "list"
    /\ fin.body.vals[2].kind = "list"
    /\ Len(fin.body.vals[1].vals) = 1
    /\ Len(fin.body.vals[2].vals) = 2
    /\ fcall.err = "ok"
    /\ Len(Result.rows) = 2

(***************************************************************************)
(* Properties of standardize_text                                          *)
(***************************************************************************)
Stripped(t) == IF fcall.args.strip THEN Strip(t) ELSE t

Lowered(t) == IF fcall.args.lowercase THEN Lower(t) ELSE t

Unspecial(t) == IF fcall.args.remove_special THEN RemoveSpecial(t) ELSE t

\* C26: standardize_text gives every string of the column the enabled
\* steps in the order strip, lowercase, remove_special, each step applied
\* or skipped by its own flag alone; the rest of the dataset is unchanged.
C26_StepsInOrder ==
    (fcall.fn = "standardize_text" /\ fcall.err = "ok" /\ fcall.args.column = "country")
        => /\ Result.cols = fin.cols
           /\ NRows(Result) = NRows(fin)
           /\ \A i \in 1..NRows(fin) :
                 /\ Result.rows[i].cases = fin.rows[i].cases
                 /\ Result.rows[i].date = fin.rows[i].date
                 /\ IsNull(fin.rows[i].country) => IsNull(Result.rows[i].country)
                 /\ ~IsNull(fin.rows[i].country)
                       => Result.rows[i].country
                             = <<Unspecial(Lowered(Stripped(Val(fin.rows[i].country))))>>

\* Stripping before removing leaves the space that followed a removed
\* leading character.
C26_Witness ==
    /\ fcall.fn = "standardize_text"
    /\ fcall.err = "ok"
    /\ fcall.args = [column |-> "country", lowercase |-> TRUE, strip |-> TRUE,
                     remove_special |-> TRUE]
    /\ NRows(fin) = 1
    /\ fin.rows[1].country = <<<<"!", " ", "U">>>>
    /\ Result.rows[1].country = <<<<" ", "u">>>>

(***************************************************************************)
(* Properties of the chainable operations that raise                       *)
(***************************************************************************)
\* C28: a chainable DataCleaner or DataAnalyzer operation that raises
\* leaves the wrapper's current dataset and its operation history as they
\* were before the call.
C28_RaiseLeavesState ==
    [][/\ (HasCleaner /\ ccall'.err # "ok")
              => /\ cleaner'.df = cleaner.df
                 /\ heap'[cleaner'.operations] = heap[cleaner.operations]
       /\ (HasAnalyzer /\ acall'.err # "ok")
              => /\ analyzer'.df = analyzer.df
                 /\ analyzer'.operations = analyzer.operations]_vars

\* An unknown strategy given to a cleaner that has applied one operation:
\* the history still holds that operation alone.
C28_Witness ==
    /\ HasCleaner
    /\ ccall.op = "handle_missing"
    /\ ccall.err = ErrStrategy
    /\ Len(ccall.applied) = 1
    /\ heap[cleaner.operations] = ccall.applied

(***************************************************************************)
(* Properties of the activity log                                          *)
(***************************************************************************)
LastClear ==
    IF \E i \in 1..Len(calls) : calls[i].op = "clear"
    THEN CHOOSE i \in 1..Len(calls) :
            calls[i].op = "clear" /\ \A j \in (i + 1)..Len(calls) : calls[j].op # "clear"
    ELSE 0

LogsSinceClear == {i \in (LastClear + 1)..Len(calls) : calls[i].op = "log"}

Rank(i) == Cardinality({j \in LogsSinceClear : j <= i})

IsRecordOf(record, c) ==
    /\ record.timestamp = c.now
    /\ record.user = loggers[c.logger].user
    /\ record.action = c.action
    /\ record.description = c.description
    /\ record.level = c.level
    /\ IF c.metadata # NULL /\ Val(c.metadata) # <<>>
       THEN "metadata" \in DOMAIN record /\ record.metadata = Val(c.metadata)
       ELSE "metadata" \notin DOMAIN record

\* C24: read_activity_log returns the records of the log() calls made
\* since the last clear_activity_log(), one per call and in call order,
\* whichever ActivityLogger instance made each call.
C24_ReadSinceClear ==
    lcall.op = "read_activity_log"
        => /\ Len(lcall.ret) = Cardinality(LogsSinceClear)
           /\ \A i \in LogsSinceClear : IsRecordOf(lcall.ret[Rank(i)], calls[i])

\* A read after a log, a clear and a log by each of two instances, the
\* second with metadata.
C24_Witness ==
    /\ lcall.op = "read_activity_log"
    /\ Len(calls) = 4
    /\ calls[1].op = "log"
    /\ calls[2].op = "clear"
    /\ Len(lcall.ret) = 2
    /\ lcall.ret[1].user # lcall.ret[2].user
    /\ "metadata" \in DOMAIN lcall.ret[2]

(***************************************************************************)
(* Properties of the with-block (specification SpecSession)                *)
(***************************************************************************)
Records == [k \in 1..Len(Val(log_file)) |-> JsonLoads(Val(log_file)[k])]

SessionRecords == {k \in 1..Len(Records) : Records[k].action \in {"session_start", "session_end"}}

\* The log() calls made inside the block entered by call i, or left by call i.
InBlockAfter(i) ==
    {j \in (i + 1)..Len(calls) :
        calls[j].op = "log" /\ \A m \in (i + 1)..(j - 1) : calls[m].op # "exit"}
InBlockBefore(i) ==
    {j \in 1..(i - 1) :
        /\ calls[j].op = "log"
        /\ \A m \in (j + 1)..(i - 1) : calls[m].op # "enter"
        /\ \E n \in 1..(j - 1) : calls[n].op = "enter"}

WrittenAt(j, k) == k \in 1..Len(Records) /\ Records[k].timestamp = calls[j].now

\* C25: with auto_log_session, __enter__ writes a session_start record
\* before every record logged inside the block and __exit__ a session_end
\* record after all of them, of level ERROR when the block raised, and the
\* exception goes on to the caller; without auto_log_session no session
\* record is written.
C25_SessionRecords ==
    /\ loggers[1].auto_log_session
          => /\ \A i \in 1..Len(calls) :
                   /\ calls[i].op = "enter"
                         => \E k \in SessionRecords :
                               /\ WrittenAt(i, k)
                               /\ Records[k].action = "session_start"
                               /\ \A j \in InBlockAfter(i) : \E m \in (k + 1)..Len(Records) :
                                     WrittenAt(j, m)
                   /\ calls[i].op = "exit"
                         => \E k \in SessionRecords :
                               /\ WrittenAt(i, k)
                               /\ Records[k].action = "session_end"
                               /\ Records[k].level
                                     = IF calls[i].exc_type # NULL THEN "ERROR" ELSE "INFO"
                               /\ \A j \in InBlockBefore(i) : \E m \in 1..(k - 1) :
                                     WrittenAt(j, m)
             /\ Cardinality(SessionRecords)
                   = Cardinality({i \in 1..Len(calls) : calls[i].op \in {"enter", "exit"}})
    /\ ~loggers[1].auto_log_session => SessionRecords = {}
    /\ (lcall.op = "__exit__" /\ calls[Len(calls)].exc_type # NULL)
          => lcall.err = Val(calls[Len(calls)].exc_type)

\* A block that logs one record and raises, after a record logged before
\* the block.
C25_Witness ==
    /\ loggers[1].auto_log_session
    /\ lcall.op = "__exit__"
    /\ lcall.err = "ValueError"
    /\ Len(Records) = 4
    /\ Records[1].action = "analysis"
    /\ Records[2].action = "session_start"
    /\ Records[3].action = "analysis"
    /\ Records[4].action = "session_end"
    /\ Records[4].level = "ERROR"

====
